---------------------------- MODULE Spec2Model ----------------------------
(***************************************************************************)
(* Model of the Smartech integration engine: the rule modules that propose *)
(* manifest / gradle.properties edits (planIntegration), the patcher that  *)
(* applies a batch of changes (applyChanges) and the verify-retry loop of  *)
(* the POST /api/apply handler.                                            *)
(*                                                                         *)
(* Text is a sequence of lines.  A line is a triple <<kind, text, indent>>:*)
(* kind names the XML tag or attribute the line carries, text its          *)
(* distinguishing value, indent the number of 4-space units in front of it.*)
(***************************************************************************)
EXTENDS Integers, Sequences, FiniteSets, TLC

\* ------------------------------------------------------------------ bounds
\* external edits of the project between the plan and the apply request
MaxEdits == 1
\* changes the client ticks in one apply request
MaxSelected == 2
\* cap on the ghost counter of the apply sub-batches one request may start
MaxSubBatches == 3

\* ------------------------------------------------------- program constants
\* faulty variant: a budget of one more round
maxAttemptsPlusOne == 2 + 1

\* const maxAttempts = 2 of the apply handlers
maxAttempts == 2
\* applyPatch(current, change.patch, { fuzzFactor: 5 }) of patcher.ts (the compiled
\* dist/patcher.js passes 0)
FuzzFactor == 5
\* lines of context createTwoFilesPatch puts around a change by default
ContextLines == 4

ManifestPath == "AndroidManifest.xml"
GradlePath == "gradle.properties"
Paths == {ManifestPath, GradlePath}

\* what else the rule modules probe: the android/ folder (scanProject), the
\* source roots android/app/src/main/java and .../kotlin, and the Flutter sources
AndroidDir == "android"
JavaRoot == "android/app/src/main/java"
KotlinRoot == "android/app/src/main/kotlin"
MainDartPath == "lib/main.dart"
PxListenersPath == "lib/smartech_px_listeners.dart"
PubspecPath == "pubspec.yaml"
PackageJsonPath == "package.json"
AppEntryPath == "App.js"
IndexPath == "index.js"
ApplicationPath == "android/app/src/main/java/com/app/MainApplication.java"
AllPaths ==
    Paths \cup {AndroidDir, JavaRoot, KotlinRoot, MainDartPath, PxListenersPath, PubspecPath,
                PackageJsonPath, AppEntryPath, IndexPath, ApplicationPath}

\* ------------------------------------------------------------ line helpers
Min(a, b) == IF a < b THEN a ELSE b
Max(a, b) == IF a > b THEN a ELSE b

Ln(kind, text, indent) == <<kind, text, indent>>
Kind(l) == l[1]
Text(l) == l[2]
Indent(l) == l[3]

\* s[a..b], empty when a > b
Slice(s, a, b) == IF a > b THEN <<>> ELSE SubSeq(s, a, b)
InsertAfter(s, k, block) == Slice(s, 1, k) \o block \o Slice(s, k + 1, Len(s))
ReplaceRange(s, a, b, block) == Slice(s, 1, a - 1) \o block \o Slice(s, b + 1, Len(s))

\* the three lines of `    <meta-data\n        android:name="N"\n        android:value="V" />`
MetaDataLines(name, value, indent) ==
    << Ln("meta-data", "", indent), Ln("android:name", name, 2), Ln("android:value", value, 2) >>

\* index of the first <meta-data tag whose android:name is `name` and that
\* carries an android:value (the regex <meta-data[^>]*android:name="N"[^>]*android:value="[^"]*"[^>]*/>), 0 when none
MetaTagIndex(s, name) ==
    IF \E i \in 1..(Len(s) - 2) :
          Kind(s[i]) = "meta-data" /\ s[i + 1] = Ln("android:name", name, 2) /\ Kind(s[i + 2]) = "android:value"
    THEN CHOOSE i \in 1..(Len(s) - 2) :
          /\ Kind(s[i]) = "meta-data" /\ s[i + 1] = Ln("android:name", name, 2) /\ Kind(s[i + 2]) = "android:value"
          /\ \A j \in 1..(i - 1) :
                ~(Kind(s[j]) = "meta-data" /\ s[j + 1] = Ln("android:name", name, 2) /\ Kind(s[j + 2]) = "android:value")
    ELSE 0

\* originalContent.includes(`android:name="N"`) and originalContent.includes("N")
IncludesName(s, name) == \E i \in 1..Len(s) : Kind(s[i]) = "android:name" /\ Text(s[i]) = name

\* index of the line that ends the first <application ...> opening tag (/<application[^>]*>/), 0 when none
ApplicationIndex(s) ==
    IF \E i \in 1..Len(s) : Kind(s[i]) = "application"
    THEN CHOOSE i \in 1..Len(s) : Kind(s[i]) = "application" /\ \A j \in 1..(i - 1) : Kind(s[j]) # "application"
    ELSE 0

\* ------------------------------------------------- unified diffs (library)
\* number of leading lines two texts share
CommonPrefix(a, b) ==
    LET n == Min(Len(a), Len(b))
    IN  IF \A i \in 1..n : a[i] = b[i] THEN n
        ELSE (CHOOSE i \in 1..n : a[i] # b[i] /\ \A j \in 1..(i - 1) : a[j] = b[j]) - 1

\* number of trailing lines two texts share beyond their common prefix p
CommonSuffix(a, b, p) ==
    LET n == Min(Len(a), Len(b)) - p
        Same(k) == a[Len(a) - k + 1] = b[Len(b) - k + 1]
    IN  IF \A k \in 1..n : Same(k) THEN n
        ELSE (CHOOSE k \in 1..n : ~Same(k) /\ \A j \in 1..(k - 1) : Same(j)) - 1

Tagged(op, s) == [i \in 1..Len(s) |-> <<op, s[i]>>]

\* createTwoFilesPatch(path, path, original, updated): no hunk when the texts are
\* equal, else one hunk holding the changed range with up to ContextLines lines
\* of context on each side; start is the 0-based index of its first old line.
createUnifiedDiff(originalContent, newContent) ==
    IF originalContent = newContent THEN <<>>
    ELSE LET p == CommonPrefix(originalContent, newContent)
             q == CommonSuffix(originalContent, newContent, p)
             before == Min(ContextLines, p)
             after == Min(ContextLines, q)
             lo == Len(originalContent)
             ln == Len(newContent)
         IN  << [ start |-> p - before,
                  ops |-> Tagged(" ", Slice(originalContent, p - before + 1, p))
                          \o Tagged("-", Slice(originalContent, p + 1, lo - q))
                          \o Tagged("+", Slice(newContent, p + 1, ln - q))
                          \o Tagged(" ", Slice(originalContent, lo - q + 1, lo - q + after)) ] >>

IsOldOp(o) == o[1] \in {" ", "-"}
OldSide(ops) == SelectSeq(ops, IsOldOp)

\* hunkFits: the number of context / removed lines of the hunk that differ from
\* the text when the hunk is laid at 0-based position pos
Mismatches(lines, ops, pos) ==
    LET old == OldSide(ops)
    IN  Cardinality({i \in 1..Len(old) : pos + i > Len(lines) \/ lines[pos + i] # old[i][2]})

\* the hunk's operations carried out from position pos: a context line keeps the
\* text's own line, a removal deletes the line at the cursor, an addition inserts
RECURSIVE ApplyOps(_, _, _, _)
ApplyOps(lines, ops, k, toPos) ==
    IF k > Len(ops) THEN lines
    ELSE LET o == ops[k]
         IN  IF o[1] = " " THEN ApplyOps(lines, ops, k + 1, toPos + 1)
             ELSE IF o[1] = "-"
                  THEN ApplyOps(Slice(lines, 1, Min(toPos, Len(lines))) \o Slice(lines, toPos + 2, Len(lines)),
                                ops, k + 1, toPos)
                  ELSE ApplyOps(InsertAfter(lines, Min(toPos, Len(lines)), <<o[2]>>), ops, k + 1, toPos + 1)

\* rank of a candidate position in the order the search tries them:
\* the expected start, then +1, -1, +2, -2, ...
SearchRank(pos, start) == IF pos >= start THEN 2 * (pos - start) ELSE 2 * (start - pos) + 1

\* applyPatch(source, patch, {fuzzFactor}): the hunk is applied at its expected
\* start when at most fuzz of its old lines differ there; otherwise at the nearest
\* position where every old line matches; otherwise the patch is rejected (false)
applyPatch(source, hunks, fuzz) ==
    IF hunks = <<>> THEN [ok |-> TRUE, lines |-> source]
    ELSE LET h == hunks[1]
             oldLines == Len(OldSide(h.ops))
             maxLine == Len(source) - oldLines
             exact == {q \in 0..maxLine : Mismatches(source, h.ops, q) = 0}
         IN  IF Mismatches(source, h.ops, h.start) <= fuzz
             THEN [ok |-> TRUE, lines |-> ApplyOps(source, h.ops, 1, h.start)]
             ELSE IF exact # {}
                  THEN LET best == CHOOSE q \in exact :
                                      \A r \in exact : SearchRank(q, h.start) <= SearchRank(r, h.start)
                       IN  [ok |-> TRUE, lines |-> ApplyOps(source, h.ops, 1, best)]
                  ELSE [ok |-> FALSE, lines |-> <<>>]

\* ------------------------------------------------------------ Change records
\* buildChange: a change carrying the unified diff of its two snapshots
\* kind: the ChangeKind each rule step writes on the change it builds: "create"
\* for the new PX listeners file, "update" for the package.json steps, "insert"
\* for every other step, those that replace an existing value included
kindOf(id) ==
    IF id = "flutter-px-listeners" THEN "create"
    ELSE IF id \in {"rn-add-smartech-base", "rn-add-smartech-px", "rn-add-smartech-push"} THEN "update"
    ELSE "insert"

buildChange(id, filePath, originalContent, newContent) ==
    [ id |-> id, kind |-> kindOf(id), filePath |-> filePath, hasPatch |-> TRUE,
      hunks |-> createUnifiedDiff(originalContent, newContent),
      hasNewContent |-> newContent # <<>>, newContent |-> newContent, manualSnippet |-> FALSE ]

\* a manual step: patch: "" and no content snapshots
advisoryChange(id, filePath, snippet) ==
    [ id |-> id, kind |-> kindOf(id), filePath |-> filePath, hasPatch |-> FALSE, hunks |-> <<>>,
      hasNewContent |-> FALSE, newContent |-> <<>>, manualSnippet |-> snippet ]

\* a rule step's result: the change when the mutator altered the text, else null (no change)
ChangeIfAltered(id, filePath, originalContent, newContent) ==
    IF newContent = originalContent THEN <<>>
    ELSE << buildChange(id, filePath, originalContent, newContent) >>

\* ------------------------------------------------------------------ mutators
\* the replace / insert body shared by the manifest meta-data mutators: the
\* replacement text starts with four spaces, the matched tag does not include
\* the indentation already in front of it
UpsertMetaData(s, name, value) ==
    IF IncludesName(s, name)
    THEN LET i == MetaTagIndex(s, name)
         IN  IF i = 0 THEN s
             ELSE ReplaceRange(s, i, i + 2, MetaDataLines(name, value, Indent(s[i]) + 1))
    ELSE IF ApplicationIndex(s) # 0
         THEN InsertAfter(s, ApplicationIndex(s), MetaDataLines(name, value, 1))
         ELSE s

\* ensureManifestMetaData, the text it computes (SMT_APP_ID)
ensureManifestMetaDataContent(s, appId) == UpsertMetaData(s, "SMT_APP_ID", appId)

\* ensureManifestFlagMeta of the React Native base rules: its replace pattern is
\* built with escaped backslashes and matches no tag, so a present name is left as it is
ensureManifestFlagMetaContent(s, name, value) ==
    IF IncludesName(s, name) THEN s
    ELSE IF ApplicationIndex(s) # 0
         THEN InsertAfter(s, ApplicationIndex(s), MetaDataLines(name, value, 1))
         ELSE s

\* ensureHanselMeta, the text it computes
ensureHanselMetaContent(s, appId, appKey) ==
    LET withId == IF appId # "" THEN UpsertMetaData(s, "HANSEL_APP_ID", appId) ELSE s
    IN  IF appKey # "" THEN UpsertMetaData(withId, "HANSEL_APP_KEY", appKey) ELSE withId

\* the six lines of the Hansel deeplink <intent-filter> block
PxIntentFilterLines(scheme) ==
    << Ln("intent-filter", "", 2), Ln("action", "VIEW", 3), Ln("category", "DEFAULT", 3),
       Ln("category", "BROWSABLE", 3), Ln("data", scheme, 3), Ln("/intent-filter", "", 2) >>

\* findLauncherActivity: the android:name of the first <activity>...</activity>
\* block holding the MAIN action and the LAUNCHER category, "" when none
IsLauncherBlock(s, i, j) ==
    /\ Kind(s[i]) = "activity" /\ Kind(s[j]) = "/activity" /\ i < j
    /\ \A k \in (i + 1)..(j - 1) : Kind(s[k]) # "/activity"
    /\ \E k \in i..j : s[k][1] = "action" /\ s[k][2] = "MAIN"
    /\ \E k \in i..j : s[k][1] = "category" /\ s[k][2] = "LAUNCHER"

findLauncherActivity(s) ==
    LET starts == {i \in 1..Len(s) : \E j \in 1..Len(s) : IsLauncherBlock(s, i, j)}
    IN  IF starts = {} THEN ""
        ELSE Text(s[CHOOSE i \in starts : \A k \in starts : i <= k])

\* index of the first <activity ... android:name="NAME" ...> opening tag, 0 when none
ActivityIndex(s, activityName) ==
    LET hits == {i \in 1..Len(s) : Kind(s[i]) = "activity" /\ Text(s[i]) = activityName}
    IN  IF hits = {} THEN 0 ELSE CHOOSE i \in hits : \A k \in hits : i <= k

\* activityBlock.includes(`android:scheme="..."`): activityBlock is the text the
\* pattern matched, which is the <activity ...> opening tag alone
\* (lines i..i), so the <data android:scheme> lines below it are not looked at
hasPxScheme(s, i, scheme) == \E k \in i..i : Kind(s[k]) = "data" /\ Text(s[k]) = scheme

\* ensurePxIntentFilter, the text it computes
ensurePxIntentFilterContent(s, activityName, scheme) ==
    LET i == ActivityIndex(s, activityName)
    IN  IF i = 0 THEN s
        ELSE IF hasPxScheme(s, i, scheme) THEN s
        ELSE InsertAfter(s, i, PxIntentFilterLines(scheme))

\* ensureGradleProperty, the text it computes: KEY=version replaces the first
\* KEY= line, or is appended when there is none
PropertyIndex(s, key) ==
    LET hits == {i \in 1..Len(s) : Kind(s[i]) = key}
    IN  IF hits = {} THEN 0 ELSE CHOOSE i \in hits : \A k \in hits : i <= k

ensureGradlePropertyContent(s, key, version) ==
    IF PropertyIndex(s, key) # 0
    THEN ReplaceRange(s, PropertyIndex(s, key), PropertyIndex(s, key), << Ln(key, version, 0) >>)
    ELSE s \o << Ln(key, version, 0) >>

\* -------------------------------------------------------------- file system
NoFile == [exists |-> FALSE, lines |-> <<>>]
File(lines) == [exists |-> TRUE, lines |-> lines]

\* pathExists
pathExists(disk, filePath) == disk[filePath].exists

\* scanProject: platforms includes "android"
HasAndroid(disk) == pathExists(disk, AndroidDir)

\* Array.prototype.includes
Includes(seq, x) == \E i \in 1..Len(seq) : seq[i] = x

\* loadFileOrEmpty: the file's text, "" when it cannot be read
loadFileOrEmpty(disk, filePath) == IF disk[filePath].exists THEN disk[filePath].lines ELSE <<>>

\* -------------------------------------------------------------- rule modules
DEFAULT_BASE_SDK_VERSION == "3.7.6"
DEFAULT_PX_SDK_VERSION == "10.2.12"

ensureGradleProperty(disk, id, key, version) ==
    IF ~disk[GradlePath].exists THEN <<>>
    ELSE ChangeIfAltered(id, GradlePath, disk[GradlePath].lines,
                         ensureGradlePropertyContent(disk[GradlePath].lines, key, version))

ensureManifestMetaData(disk, appId) ==
    IF ~disk[ManifestPath].exists \/ appId = "" THEN <<>>
    ELSE ChangeIfAltered("android-manifest-metadata-appid", ManifestPath, disk[ManifestPath].lines,
                         ensureManifestMetaDataContent(disk[ManifestPath].lines, appId))

ensureManifestFlagMeta(disk, id, name, value) ==
    IF ~disk[ManifestPath].exists THEN <<>>
    ELSE ChangeIfAltered(id, ManifestPath, disk[ManifestPath].lines,
                         ensureManifestFlagMetaContent(disk[ManifestPath].lines, name, value))

ensureHanselMeta(disk, appId, appKey) ==
    IF ~disk[ManifestPath].exists THEN <<>>
    ELSE ChangeIfAltered("android-manifest-hansel-meta", ManifestPath, disk[ManifestPath].lines,
                         ensureHanselMetaContent(disk[ManifestPath].lines, appId, appKey))

ensurePxIntentFilter(disk, activityName, scheme) ==
    IF ~disk[ManifestPath].exists \/ scheme = "" THEN <<>>
    ELSE ChangeIfAltered("android-manifest-px-intent", ManifestPath, disk[ManifestPath].lines,
                         ensurePxIntentFilterContent(disk[ManifestPath].lines, activityName, scheme))

\* the launcher activity the rules look up in the manifest on disk
Launcher(disk) == IF disk[ManifestPath].exists THEN findLauncherActivity(disk[ManifestPath].lines) ELSE ""

\* { module, ...change }: the rule module's name on each of its changes
WithModule(changes, module) == [i \in 1..Len(changes) |-> [module |-> module] @@ changes[i]]

\* ------------------------------------------------------------ package.json
\* package.json is a sequence of lines <<kind, text, indent>>: "{", "name",
\* "dependencies", one line per dependency (kind: the package, text: its
\* version), "/dependencies", "}"; a line of kind "not-json" is text JSON.parse
\* rejects
RN_BASE_LIB == "smartech-base-react-native"
RN_PX_LIB == "smartech-reactnative-nudges"
RN_PUSH_LIB == "smartech-push-react-native"
FIREBASE_APP == "@react-native-firebase/app"
FIREBASE_MESSAGING == "@react-native-firebase/messaging"
RN_BASE_VERSION == "^3.7.3"
DEFAULT_RN_PX_VERSION == "^3.7.0"
DEFAULT_RN_PUSH_VERSION == "^3.7.2"
DEFAULT_FIREBASE_VERSION == "^18.6.0"

\* JSON.parse(originalContent) does not throw
JsonParses(s) == s # <<>> /\ \A i \in 1..Len(s) : Kind(s[i]) # "not-json"

\* dependencies[lib], "" when undefined
DependencyVersion(s, lib) ==
    IF \E i \in 1..Len(s) : Kind(s[i]) = lib
    THEN Text(s[CHOOSE i \in 1..Len(s) : Kind(s[i]) = lib])
    ELSE ""

\* { ...parsed, dependencies: { ...dependencies, [lib]: version } }
WithDependency(s, lib, version) ==
    IF \E i \in 1..Len(s) : Kind(s[i]) = lib
    THEN [i \in 1..Len(s) |-> IF Kind(s[i]) = lib THEN Ln(lib, version, Indent(s[i])) ELSE s[i]]
    ELSE IF \E i \in 1..Len(s) : Kind(s[i]) = "/dependencies"
    THEN InsertAfter(s, (CHOOSE i \in 1..Len(s) : Kind(s[i]) = "/dependencies") - 1,
                     << Ln(lib, version, 2) >>)
    ELSE InsertAfter(s, Len(s) - 1,
                     << Ln("dependencies", "", 1), Ln(lib, version, 2), Ln("/dependencies", "", 1) >>)

\* JSON.stringify(value, null, 2) + "\n": every line at the indentation of its depth
JsonStringify(s) ==
    [i \in 1..Len(s) |->
        Ln(Kind(s[i]), Text(s[i]),
           IF Kind(s[i]) \in {"{", "}"} THEN 0
           ELSE IF Kind(s[i]) \in {"name", "dependencies", "/dependencies"} THEN 1 ELSE 2)]

\* ensureReactNativeDependency (base)
ensureReactNativeDependency(disk) ==
    IF ~pathExists(disk, PackageJsonPath) THEN <<>>
    ELSE LET originalContent == disk[PackageJsonPath].lines
         IN  IF ~JsonParses(originalContent) THEN <<>>
             ELSE IF DependencyVersion(originalContent, RN_BASE_LIB) = RN_BASE_VERSION THEN <<>>
             ELSE << buildChange("rn-add-smartech-base", PackageJsonPath, originalContent,
                                 JsonStringify(WithDependency(originalContent, RN_BASE_LIB,
                                                              RN_BASE_VERSION))) >>

\* a step that takes text it cannot parse for an empty object and proposes a
\* package.json of its own (faulty variant)
ensureReactNativePxDependencyOnEmptyObject(disk, rnPxVersion) ==
    IF ~pathExists(disk, PackageJsonPath) THEN <<>>
    ELSE LET originalContent == disk[PackageJsonPath].lines
             parsed == IF JsonParses(originalContent) THEN originalContent
                       ELSE << Ln("{", "", 0), Ln("}", "", 0) >>
             newContent == JsonStringify(
                               IF DependencyVersion(parsed, RN_PX_LIB) # rnPxVersion
                               THEN WithDependency(parsed, RN_PX_LIB, rnPxVersion)
                               ELSE parsed)
         IN  IF newContent = originalContent THEN <<>>
             ELSE << buildChange("rn-add-smartech-px", PackageJsonPath, originalContent, newContent) >>

\* ensureReactNativePxDependency (px)
ensureReactNativePxDependency(disk, rnPxVersion) ==
    IF ~pathExists(disk, PackageJsonPath) THEN <<>>
    ELSE LET originalContent == disk[PackageJsonPath].lines
             newContent == JsonStringify(
                               IF DependencyVersion(originalContent, RN_PX_LIB) # rnPxVersion
                               THEN WithDependency(originalContent, RN_PX_LIB, rnPxVersion)
                               ELSE originalContent)
         IN  IF ~JsonParses(originalContent) THEN <<>>
             ELSE IF newContent = originalContent THEN <<>>
             ELSE << buildChange("rn-add-smartech-px", PackageJsonPath, originalContent, newContent) >>

\* ensureReactNativePushDependencies (push)
ensureReactNativePushDependencies(disk, rnPushVersion, firebaseVersion) ==
    IF ~pathExists(disk, PackageJsonPath) THEN <<>>
    ELSE LET originalContent == disk[PackageJsonPath].lines
             withPush == IF DependencyVersion(originalContent, RN_PUSH_LIB) # rnPushVersion
                         THEN WithDependency(originalContent, RN_PUSH_LIB, rnPushVersion)
                         ELSE originalContent
             withApp == IF DependencyVersion(withPush, FIREBASE_APP) = ""
                        THEN WithDependency(withPush, FIREBASE_APP, firebaseVersion) ELSE withPush
             withMessaging == IF DependencyVersion(withApp, FIREBASE_MESSAGING) = ""
                              THEN WithDependency(withApp, FIREBASE_MESSAGING, firebaseVersion)
                              ELSE withApp
             newContent == JsonStringify(withMessaging)
         IN  IF ~JsonParses(originalContent) THEN <<>>
             ELSE IF newContent = originalContent THEN <<>>
             ELSE << buildChange("rn-add-smartech-push", PackageJsonPath, originalContent, newContent) >>

\* ------------------------------------------------- the Application class
\* a Java source is a sequence of lines <<kind, text, indent>>: "package",
\* "import" (text: the class imported), "class", "onCreate" and "/onCreate"
\* around the method's statements, "super.onCreate", the Smartech calls by
\* name, "comment", "statement", "/class"
SMARTECH_WEAKREF_IMPORT == "java.lang.ref.WeakReference"
SMARTECH_IMPORT == "com.netcore.android.Smartech"
SMARTECH_BASE_PLUGIN_IMPORT == "com.smartechbasereactnative.SmartechBasePlugin"
CONTEXT_IMPORT == "android.content.Context"

SMARTECH_INIT_LINES ==
    << Ln("initializeSdk", "this", 2),
       Ln("comment", "Add the below line for debugging logs", 2),
       Ln("setDebugLevel", "9", 2),
       Ln("comment", "Add the below line to track app install and update by smartech", 2),
       Ln("trackAppInstallUpdateBySmartech", "", 2),
       Ln("pluginGet", "smartechBasePlugin", 2),
       Ln("pluginInit", "this", 2) >>

\* one import: added right after the package statement unless the source has it
ensureJavaImport(source, imp) ==
    IF \E i \in 1..Len(source) : source[i] = Ln("import", imp, 0) THEN source
    ELSE IF \E i \in 1..Len(source) : Kind(source[i]) = "package"
    THEN InsertAfter(source, CHOOSE i \in 1..Len(source) :
                                 /\ Kind(source[i]) = "package"
                                 /\ \A j \in 1..(i - 1) : Kind(source[j]) # "package",
                     << Ln("import", imp, 0) >>)
    ELSE source

\* ensureJavaImports with the four imports injectJavaInit asks for, in its order
ensureJavaImports(source) ==
    ensureJavaImport(ensureJavaImport(ensureJavaImport(ensureJavaImport(source,
        SMARTECH_WEAKREF_IMPORT), SMARTECH_IMPORT), SMARTECH_BASE_PLUGIN_IMPORT), CONTEXT_IMPORT)

\* dedupeLines: a line is kept unless an earlier line has the same text
dedupeLines(lines) ==
    LET Keep(i) == \A j \in 1..(i - 1) : <<Kind(lines[j]), Text(lines[j])>> # <<Kind(lines[i]), Text(lines[i])>>
        F[i \in 0..Len(lines)] ==
            IF i = 0 THEN <<>> ELSE IF Keep(i) THEN Append(F[i - 1], lines[i]) ELSE F[i - 1]
    IN  F[Len(lines)]

\* the lines of a source of one kind
CountKind(s, kind) == Cardinality({i \in 1..Len(s) : Kind(s[i]) = kind})

\* a getMissingJavaInitLines that does not look for an existing initializeSdk
\* call (faulty variant)
getMissingJavaInitLinesAlwaysInit(source) ==
    dedupeLines(<< SMARTECH_INIT_LINES[1] >>
                \o (IF CountKind(source, "setDebugLevel") = 0
                    THEN << SMARTECH_INIT_LINES[2], SMARTECH_INIT_LINES[3] >> ELSE <<>>)
                \o (IF CountKind(source, "trackAppInstallUpdateBySmartech") = 0
                    THEN << SMARTECH_INIT_LINES[4], SMARTECH_INIT_LINES[5], SMARTECH_INIT_LINES[6] >>
                    ELSE <<>>))

\* getMissingJavaInitLines (React Native base); SMARTECH_INIT_LINES[k] of the
\* source is SMARTECH_INIT_LINES[k + 1] here
getMissingJavaInitLines(source) ==
    LET hasInitialize == CountKind(source, "initializeSdk") > 0
        hasDebug == CountKind(source, "setDebugLevel") > 0
        hasTrack == CountKind(source, "trackAppInstallUpdateBySmartech") > 0
        hasPluginBlock == CountKind(source, "pluginGet") > 0 \/ CountKind(source, "pluginInit") > 0
        first == (IF ~hasInitialize THEN << SMARTECH_INIT_LINES[1] >> ELSE <<>>)
                 \o (IF ~hasDebug THEN << SMARTECH_INIT_LINES[2], SMARTECH_INIT_LINES[3] >> ELSE <<>>)
                 \o (IF ~hasTrack
                     THEN << SMARTECH_INIT_LINES[4], SMARTECH_INIT_LINES[5], SMARTECH_INIT_LINES[6] >>
                     ELSE <<>>)
        second == IF ~hasPluginBlock /\ ~Includes(first, SMARTECH_INIT_LINES[5])
                  THEN Append(first, SMARTECH_INIT_LINES[5]) ELSE first
        third == IF ~hasPluginBlock /\ ~Includes(second, SMARTECH_INIT_LINES[6])
                 THEN Append(second, SMARTECH_INIT_LINES[6]) ELSE second
    IN  dedupeLines(third)

\* the first line of a kind, 0 when there is none
FirstOfKind(s, kind) ==
    IF \E i \in 1..Len(s) : Kind(s[i]) = kind
    THEN CHOOSE i \in 1..Len(s) : Kind(s[i]) = kind /\ \A j \in 1..(i - 1) : Kind(s[j]) # kind
    ELSE 0

\* injectJavaInit
injectJavaInit(source) ==
    LET updated == ensureJavaImports(source)
        missingLines == getMissingJavaInitLines(updated)
    IN  IF missingLines = <<>> THEN updated
        ELSE IF CountKind(updated, "onCreate") > 0
        THEN (IF FirstOfKind(updated, "super.onCreate") # 0
              THEN InsertAfter(updated, FirstOfKind(updated, "super.onCreate"), missingLines)
              ELSE updated)
        ELSE IF FirstOfKind(updated, "class") # 0
        THEN InsertAfter(updated, FirstOfKind(updated, "class"),
                         << Ln("blank", "", 0), Ln("@Override", "", 1), Ln("onCreate", "", 1),
                            Ln("super.onCreate", "", 2) >>
                         \o missingLines \o << Ln("/onCreate", "", 1) >>)
        ELSE updated

\* ensureApplicationInit, for an Application class written in Java
ensureApplicationInit(disk, filePath) ==
    ChangeIfAltered("android-inject-oncreate", filePath, disk[filePath].lines,
                    injectJavaInit(disk[filePath].lines))

\* native Android: JAVA_INIT_LINES, getMissingJavaInitLines and
\* insertAfterSuperOnCreate of the native base module
JAVA_INIT_LINES ==
    << Ln("initializeSdk", "this", 2), Ln("setDebugLevel", "9", 2),
       Ln("trackAppInstallUpdateBySmartech", "", 2) >>

nativeGetMissingJavaInitLines(source) ==
    (IF CountKind(source, "initializeSdk") = 0 THEN << JAVA_INIT_LINES[1] >> ELSE <<>>)
    \o (IF CountKind(source, "setDebugLevel") = 0 THEN << JAVA_INIT_LINES[2] >> ELSE <<>>)
    \o (IF CountKind(source, "trackAppInstallUpdateBySmartech") = 0 THEN << JAVA_INIT_LINES[3] >> ELSE <<>>)

insertAfterSuperOnCreate(source, lines) ==
    IF lines = <<>> THEN source
    ELSE IF FirstOfKind(source, "super.onCreate") = 0 THEN source
    ELSE InsertAfter(source, FirstOfKind(source, "super.onCreate"), lines)

\* runBaseRules: its entry checks and the steps that edit gradle.properties,
\* package.json, the Application class and AndroidManifest.xml (the project is
\* taken to have an Application class in Java and its activity sources)
runBaseRules(disk, inputs) ==
    WithModule(
    IF ~HasAndroid(disk) THEN <<>>
    ELSE IF ~pathExists(disk, JavaRoot)
    THEN << advisoryChange("android-no-java-root", JavaRoot, FALSE) >>
    ELSE
    ensureGradleProperty(disk, "android-gradle-properties-smartech", "SMARTECH_BASE_SDK_VERSION",
                         IF inputs.baseSdkVersion # "" THEN inputs.baseSdkVersion
                         ELSE DEFAULT_BASE_SDK_VERSION)
    \o ensureReactNativeDependency(disk)
    \o ensureApplicationInit(disk, ApplicationPath)
    \o ensureManifestMetaData(disk, inputs.smartechAppId)
    \o (IF inputs.autoFetchLocation # "unset"
        THEN ensureManifestFlagMeta(disk, "android-manifest-metadata-smt_is_auto_fetched_location",
                                    "SMT_IS_AUTO_FETCHED_LOCATION",
                                    IF inputs.autoFetchLocation = "true" THEN "1" ELSE "0")
        ELSE <<>>)
    \o (IF Launcher(disk) = ""
        THEN << advisoryChange("android-launcher-activity-missing", ManifestPath, TRUE) >>
        ELSE <<>>),
    "base")

\* runPxRules: its entry check and the steps that edit gradle.properties and
\* AndroidManifest.xml
runPxRules(disk, inputs) ==
    WithModule(
    IF ~HasAndroid(disk) THEN <<>>
    ELSE
    ensureGradleProperty(disk, "android-gradle-properties-smartech-px", "SMARTECH_PX_SDK_VERSION",
                         IF inputs.pxSdkVersion # "" THEN inputs.pxSdkVersion ELSE DEFAULT_PX_SDK_VERSION)
    \o ensureReactNativePxDependency(disk, DEFAULT_RN_PX_VERSION)
    \o ensureHanselMeta(disk, inputs.hanselAppId, inputs.hanselAppKey)
    \o (IF Launcher(disk) # ""
        THEN ensurePxIntentFilter(disk, Launcher(disk), inputs.pxScheme)
        ELSE << advisoryChange("android-manifest-px-intent-manual", ManifestPath, TRUE) >>),
    "px")

\* runPushRules (React Native): its entry check, the steps that edit
\* gradle.properties and package.json, and the manual steps it asks for when
\* the project has no App entry file and no index file
DEFAULT_PUSH_SDK_VERSION == "3.5.13"
runPushRules(disk, inputs) ==
    WithModule(
    IF ~HasAndroid(disk) THEN <<>>
    ELSE ensureGradleProperty(disk, "android-gradle-properties-smartech-push", "SMARTECH_PUSH_SDK_VERSION",
                              IF inputs.pushSdkVersion # "" THEN inputs.pushSdkVersion
                              ELSE DEFAULT_PUSH_SDK_VERSION)
         \o ensureReactNativePushDependencies(disk, DEFAULT_RN_PUSH_VERSION, DEFAULT_FIREBASE_VERSION)
         \o (IF ~pathExists(disk, AppEntryPath)
             THEN << advisoryChange("rn-app-push-manual", AppEntryPath, TRUE) >> ELSE <<>>)
         \o (IF ~pathExists(disk, IndexPath)
             THEN << advisoryChange("rn-index-push-manual", IndexPath, TRUE) >> ELSE <<>>),
    "push")

\* ------------------------------------------------ Flutter: lib/main.dart
\* a Dart source is a sequence of lines <<kind, text, indent>>; the kinds name
\* the constructs the mutators look for
HasKind(s, kind) == \E i \in 1..Len(s) : Kind(s[i]) = kind
FirstIndexOfKind(s, kind) ==
    IF HasKind(s, kind)
    THEN CHOOSE i \in 1..Len(s) : Kind(s[i]) = kind /\ \A j \in 1..(i - 1) : Kind(s[j]) # kind
    ELSE 0
LastIndexOfKind(s, kind) ==
    IF HasKind(s, kind)
    THEN CHOOSE i \in 1..Len(s) : Kind(s[i]) = kind /\ \A j \in (i + 1)..Len(s) : Kind(s[j]) # kind
    ELSE 0

\* ensureDartImports: the imports not yet in the source go after its last
\* import line, or in front of the source when it has none
ensureDartImports(source, imports) ==
    LET Missing(imp) == ~\E i \in 1..Len(source) : source[i] = Ln("import", imp, 0)
        missing == SelectSeq(imports, Missing)
        importBlock == [i \in 1..Len(missing) |-> Ln("import", missing[i], 0)]
        lastImport == LastIndexOfKind(source, "import")
    IN  IF missing = <<>> THEN source
        ELSE IF lastImport # 0 THEN InsertAfter(source, lastImport, importBlock)
        ELSE importBlock \o << Ln("blank", "", 0) >> \o source

PushImports ==
    << "package:firebase_core/firebase_core.dart", "package:firebase_messaging/firebase_messaging.dart",
       "package:smartech_push/smartech_push.dart", "package:smartech_base/smartech_base.dart" >>

\* ensureBackgroundHandler: source.includes("firebaseMessagingBackgroundHandler")
\* is true of the handler function and of the line that registers it
ensureBackgroundHandler(source) ==
    IF HasKind(source, "handler") \/ HasKind(source, "onBackgroundMessage") THEN source
    ELSE LET lastImport == LastIndexOfKind(source, "import")
         IN  IF lastImport # 0
             THEN InsertAfter(source, lastImport,
                              << Ln("blank", "", 0), Ln("handler", "", 0), Ln("blank", "", 0) >>)
             ELSE << Ln("handler", "", 0), Ln("blank", "", 0) >> \o source

\* ensureMainRegistration: the registration goes right after `main() {`
ensureMainRegistration(source) ==
    LET mainStart == FirstIndexOfKind(source, "main")
    IN  IF mainStart = 0 THEN source
        ELSE IF HasKind(source, "onBackgroundMessage") THEN source
        ELSE InsertAfter(source, mainStart, << Ln("onBackgroundMessage", "", 1) >>)

\* body.replace(/super\.initState\s*\(\s*\);\s*/g, ...): the lines after every match
RECURSIVE InsertAfterEvery(_, _, _)
InsertAfterEvery(body, kind, block) ==
    IF body = <<>> THEN <<>>
    ELSE << Head(body) >> \o (IF Kind(Head(body)) = kind THEN block ELSE <<>>)
         \o InsertAfterEvery(Tail(body), kind, block)

\* ensureStatefulPushSetup: inside the first `class X extends State<...> {` body,
\* the missing calls go into initState (after super.initState(), or in a new
\* override at the start of the body) and a missing _registerPushToken method
\* at the end of the body
ensureStatefulPushSetup(source) ==
    LET classStart == FirstIndexOfKind(source, "state-class")
        ends == {i \in (classStart + 1)..Len(source) : Kind(source[i]) = "/state-class"}
    IN  IF classStart = 0 \/ ends = {} THEN source
        ELSE LET bodyEnd == CHOOSE i \in ends : \A j \in ends : i <= j
                 body == Slice(source, classStart + 1, bodyEnd - 1)
                 hasRegisterMethod == HasKind(body, "registerPushToken-call")
                                      \/ HasKind(body, "registerPushToken-method")
                 hasInitState == HasKind(body, "initState")
                 initLines ==
                     (IF hasRegisterMethod THEN <<>> ELSE << Ln("registerPushToken-call", "", 2) >>)
                     \o (IF HasKind(body, "onMessage") THEN <<>> ELSE << Ln("onMessage", "", 2) >>)
                     \o (IF HasKind(body, "onHandleDeeplink") THEN <<>> ELSE << Ln("onHandleDeeplink", "", 2) >>)
                 withInit ==
                     IF initLines = <<>> THEN body
                     ELSE IF hasInitState THEN InsertAfterEvery(body, "super.initState", initLines)
                     ELSE << Ln("initState", "", 1), Ln("super.initState", "", 2) >> \o initLines
                          \o << Ln("/initState", "", 1) >> \o body
                 updatedBody ==
                     IF hasRegisterMethod THEN withInit
                     ELSE withInit \o << Ln("registerPushToken-method", "", 1) >>
             IN  Slice(source, 1, classStart) \o updatedBody \o Slice(source, bodyEnd, Len(source))

\* ensureMainDartPush
ensureMainDartPush(disk, filePath) ==
    IF ~pathExists(disk, filePath)
    THEN << buildChange("flutter-main-dart-missing", filePath, <<>>, <<>>) >>
    ELSE LET originalContent == disk[filePath].lines
             newContent ==
                 ensureStatefulPushSetup(ensureMainRegistration(ensureBackgroundHandler(
                     ensureDartImports(originalContent, PushImports))))
             missingSignals ==
                 \/ ~(HasKind(originalContent, "registerPushToken-call")
                      \/ HasKind(originalContent, "registerPushToken-method"))
                 \/ ~HasKind(originalContent, "onMessage")
                 \/ ~HasKind(originalContent, "onHandleDeeplink")
         IN  IF newContent = originalContent
             THEN IF missingSignals
                  THEN << buildChange("flutter-main-dart-stateful-missing", filePath,
                                      originalContent, originalContent) >>
                  ELSE <<>>
             ELSE << buildChange("flutter-main-dart-push", filePath, originalContent, newContent) >>

PX_IMPORT == "package:smartech_nudges/smartech_nudges.dart"

\* wrapAppWithPxWidget: `return MaterialApp(...)` becomes
\* `return SmartechPxWidget(child: MaterialApp(...))`
wrapAppWithPxWidget(source) ==
    IF HasKind(source, "return-px-widget") THEN source
    ELSE LET r == FirstIndexOfKind(source, "return-app")
         IN  IF r = 0 THEN source
             ELSE ReplaceRange(source, r, r,
                               << Ln("return-px-widget", "", Indent(source[r])),
                                  Ln("child-app", Text(source[r]), Indent(source[r]) + 1),
                                  Ln("/px-widget", "", Indent(source[r])) >>)

\* ensurePxNavigatorObserver: the observer goes into GoRouter( or into the app widget's arguments
ensurePxNavigatorObserver(source) ==
    IF HasKind(source, "observer") THEN source
    ELSE IF HasKind(source, "GoRouter")
    THEN InsertAfter(source, FirstIndexOfKind(source, "GoRouter"), << Ln("observer", "", 1) >>)
    ELSE LET apps == {i \in 1..Len(source) : Kind(source[i]) \in {"return-app", "child-app"}}
         IN  IF apps = {} THEN source
             ELSE InsertAfter(source, CHOOSE i \in apps : \A j \in apps : i <= j,
                              << Ln("observer", "", 3) >>)

\* ensurePxRegistrations: the missing registrations go right after `main() {`
ensurePxRegistrations(source, shouldRegister) ==
    LET hasDeeplinkReg == HasKind(source, "registerPxDeeplinkListener")
        hasInternalReg == HasKind(source, "registerPxInternalEventsListener")
        mainStart == FirstIndexOfKind(source, "main")
    IN  IF ~shouldRegister \/ (hasDeeplinkReg /\ hasInternalReg) \/ mainStart = 0 THEN source
        ELSE InsertAfter(source, mainStart,
                         (IF hasDeeplinkReg THEN <<>> ELSE << Ln("registerPxDeeplinkListener", "", 1) >>)
                         \o (IF hasInternalReg THEN <<>>
                             ELSE << Ln("registerPxInternalEventsListener", "", 1) >>))

\* ensureMainDartPx
ensureMainDartPx(disk, filePath, includeListenerImport) ==
    IF ~pathExists(disk, filePath)
    THEN << buildChange("flutter-main-dart-missing", filePath, <<>>, <<>>) >>
    ELSE LET originalContent == disk[filePath].lines
             imported == ensureDartImports(originalContent, << PX_IMPORT, "package:flutter/foundation.dart" >>)
             withListeners == IF includeListenerImport
                              THEN ensureDartImports(imported, << "smartech_px_listeners.dart" >>)
                              ELSE imported
             newContent == ensurePxRegistrations(ensurePxNavigatorObserver(wrapAppWithPxWidget(withListeners)),
                                                 includeListenerImport)
             missingSignals ==
                 \/ ~HasKind(originalContent, "return-px-widget")
                 \/ ~HasKind(originalContent, "observer")
                 \/ ~HasKind(originalContent, "registerPxDeeplinkListener")
                 \/ ~HasKind(originalContent, "registerPxInternalEventsListener")
         IN  IF newContent = originalContent
             THEN IF missingSignals
                  THEN << [buildChange("flutter-main-dart-px-missing", filePath, originalContent,
                                       originalContent) EXCEPT !.manualSnippet = TRUE] >>
                  ELSE <<>>
             ELSE << buildChange("flutter-main-dart-px", filePath, originalContent, newContent) >>

\* findPxListeners: some .dart file under lib/ declares a class that extends a PX listener
findPxListeners(disk) ==
    \E p \in {MainDartPath, PxListenersPath} :
       pathExists(disk, p) /\ HasKind(disk[p].lines, "px-listener-class")

\* the content of the listener file the px module creates
PxListenerLines ==
    << Ln("import", "package:flutter/foundation.dart", 0), Ln("import", PX_IMPORT, 0),
       Ln("blank", "", 0), Ln("px-listener-class", "_PxDeeplinkListenerImpl", 0),
       Ln("px-listener-class", "_PxInternalEventsListener", 0) >>

\* --------------------------------------------- Flutter and native modules
\* what the Flutter modules do after their checks on the build files and the
\* manifest is left out; their checks of the project and their lib/ steps are modelled
sourceRoots(disk) == {p \in {JavaRoot, KotlinRoot} : pathExists(disk, p)}

\* runFlutterBaseRules
runFlutterBaseRules(disk, inputs) ==
    WithModule(
    IF ~HasAndroid(disk) THEN <<>>
    ELSE IF sourceRoots(disk) = {}
    THEN << advisoryChange("flutter-android-no-java-root", JavaRoot, FALSE) >>
    ELSE <<>>,
    "base")

\* runFlutterPushRules
runFlutterPushRules(disk, inputs) ==
    WithModule(
    IF ~HasAndroid(disk) THEN <<>>
    ELSE IF sourceRoots(disk) = {}
    THEN << advisoryChange("flutter-push-android-no-src", "android/app/src/main", FALSE) >>
    ELSE ensureMainDartPush(disk, inputs.mainDartPath),
    "push")

\* runFlutterPxRules
runFlutterPxRules(disk, inputs) ==
    WithModule(
    IF ~HasAndroid(disk) THEN <<>>
    ELSE IF sourceRoots(disk) = {}
    THEN << advisoryChange("flutter-px-android-no-src", "android/app/src/main", FALSE) >>
    ELSE LET shouldCreateListeners == ~findPxListeners(disk)
             mainDartPath == inputs.mainDartPath
         IN  (IF ~shouldCreateListeners THEN <<>>
              ELSE IF pathExists(disk, PxListenersPath)
              THEN << buildChange("flutter-px-listeners-append", PxListenersPath,
                                  disk[PxListenersPath].lines,
                                  disk[PxListenersPath].lines \o PxListenerLines) >>
              ELSE << buildChange("flutter-px-listeners", PxListenersPath, <<>>, PxListenerLines) >>)
             \o ensureMainDartPx(disk, mainDartPath, shouldCreateListeners)
             \o (IF /\ ~shouldCreateListeners /\ pathExists(disk, mainDartPath)
                    /\ ~(/\ HasKind(disk[mainDartPath].lines, "registerPxDeeplinkListener")
                         /\ HasKind(disk[mainDartPath].lines, "registerPxInternalEventsListener"))
                 THEN << advisoryChange("flutter-px-listener-registration-missing", mainDartPath, TRUE) >>
                 ELSE <<>>),
    "px")

\* runNativeBaseRules: without both class paths it asks for them and returns
runNativeBaseRules(disk, inputs) ==
    WithModule(
    IF inputs.applicationClassPath = "" \/ inputs.mainActivityPath = ""
    THEN << advisoryChange("native-input-paths-missing", "", FALSE) >>
    ELSE <<>>,
    "base")

\* runNativePushRules: without the messaging service class it asks for it and returns
runNativePushRules(disk, inputs) ==
    WithModule(
    IF inputs.firebaseMessagingServicePath = ""
    THEN << advisoryChange("native-push-firebase-service-missing", "android/app/src/main", FALSE) >>
    ELSE <<>>,
    "push")

\* runNativePxRules: a missing class path is reported, each in its own change
runNativePxRules(disk, inputs) ==
    WithModule(
    (IF inputs.mainActivityPath = ""
     THEN << advisoryChange("native-px-mainactivity-path-missing", "", FALSE) >> ELSE <<>>)
    \o (IF inputs.applicationClassPath = ""
        THEN << advisoryChange("native-px-application-path-missing", "", FALSE) >> ELSE <<>>),
    "px")

\* a planner that walks options.parts in the order given (faulty variant)
planInPartsOrder(disk, opts) ==
    LET Module(part) ==
            IF part = "base"
            THEN (IF opts.appPlatform = "flutter" THEN runFlutterBaseRules(disk, opts.inputs)
                  ELSE IF opts.appPlatform = "android-native" THEN runNativeBaseRules(disk, opts.inputs)
                  ELSE runBaseRules(disk, opts.inputs))
            ELSE IF part = "push"
            THEN (IF opts.appPlatform = "flutter" THEN runFlutterPushRules(disk, opts.inputs)
                  ELSE IF opts.appPlatform = "android-native" THEN runNativePushRules(disk, opts.inputs)
                  ELSE runPushRules(disk, opts.inputs))
            ELSE (IF opts.appPlatform = "flutter" THEN runFlutterPxRules(disk, opts.inputs)
                  ELSE IF opts.appPlatform = "android-native" THEN runNativePxRules(disk, opts.inputs)
                  ELSE runPxRules(disk, opts.inputs))
        parts == opts.parts
    IN  (IF Len(parts) >= 1 THEN Module(parts[1]) ELSE <<>>)
        \o (IF Len(parts) >= 2 THEN Module(parts[2]) ELSE <<>>)
        \o (IF Len(parts) >= 3 THEN Module(parts[3]) ELSE <<>>)

\* planIntegration: each selected part goes to the rule module of
\* options.appPlatform; base, then push, then px
planIntegration(disk, opts) ==
    (IF Includes(opts.parts, "base")
     THEN (IF opts.appPlatform = "flutter" THEN runFlutterBaseRules(disk, opts.inputs)
           ELSE IF opts.appPlatform = "android-native" THEN runNativeBaseRules(disk, opts.inputs)
           ELSE runBaseRules(disk, opts.inputs))
     ELSE <<>>)
    \o (IF Includes(opts.parts, "push")
        THEN (IF opts.appPlatform = "flutter" THEN runFlutterPushRules(disk, opts.inputs)
              ELSE IF opts.appPlatform = "android-native" THEN runNativePushRules(disk, opts.inputs)
              ELSE runPushRules(disk, opts.inputs))
        ELSE <<>>)
    \o (IF Includes(opts.parts, "px")
        THEN (IF opts.appPlatform = "flutter" THEN runFlutterPxRules(disk, opts.inputs)
              ELSE IF opts.appPlatform = "android-native" THEN runNativePxRules(disk, opts.inputs)
              ELSE runPxRules(disk, opts.inputs))
        ELSE <<>>)

\* ------------------------------------------- the callers' option handling
\* detectFlutterProject: pubspec.yaml has a top-level `flutter:` key
detectFlutterProject(disk) == pathExists(disk, PubspecPath) /\ HasKind(disk[PubspecPath].lines, "flutter:")

\* options.appPlatform, detected when the request does not declare it
platformOf(disk, opts) ==
    IF opts.appPlatform # "" THEN opts.appPlatform
    ELSE IF detectFlutterProject(disk) THEN "flutter" ELSE "react-native"

\* ["base", ...(parts.includes("push") ? ["push"] : []), ...(parts.includes("px") ? ["px"] : [])]
baseFirst(parts) ==
    << "base" >> \o (IF Includes(parts, "push") THEN << "push" >> ELSE <<>>)
    \o (IF Includes(parts, "px") THEN << "px" >> ELSE <<>>)

\* the desktop's detectParts
detectParts(appPlatform, parts) ==
    IF appPlatform \in {"flutter", "android-native"} THEN baseFirst(parts)
    ELSE LET NotBase(part) == part # "base" IN << "base" >> \o SelectSeq(parts, NotBase)

\* the desktop's normalizeOptions
normalizeOptions(disk, opts) ==
    [opts EXCEPT !.appPlatform = platformOf(disk, opts),
                 !.parts = detectParts(platformOf(disk, opts), opts.parts)]

\* POST /api/apply, what it does to options before its planning passes
verifyOptions(disk, opts) ==
    [opts EXCEPT !.appPlatform = platformOf(disk, opts),
                 !.parts = IF platformOf(disk, opts) = "flutter" THEN baseFirst(opts.parts) ELSE opts.parts]

\* POST /api/plan: the 400 answer, "" when the request passes every check
planRejection(disk, opts) ==
    LET appPlatform == platformOf(disk, opts)
        parts == IF appPlatform = "flutter" THEN baseFirst(opts.parts) ELSE opts.parts
        given == opts.inputs
    IN  IF opts.parts = <<>> \/ ~Includes(opts.parts, "base") THEN "parts must include base"
        ELSE IF given.smartechAppId = "" THEN "smartechAppId is required"
        ELSE IF given.deeplinkScheme = "" THEN "deeplinkScheme is required"
        ELSE IF appPlatform = "flutter" /\ given.flutterBaseSdkVersion = ""
        THEN "flutterBaseSdkVersion is required for Flutter"
        ELSE IF appPlatform = "flutter" /\ given.baseSdkVersion = ""
        THEN "baseSdkVersion is required for Flutter"
        ELSE IF appPlatform = "flutter" /\ Includes(parts, "push") /\ given.flutterPushSdkVersion = ""
        THEN "flutterPushSdkVersion is required for Flutter Push"
        ELSE IF appPlatform = "flutter" /\ Includes(parts, "push") /\ given.pushSdkVersion = ""
        THEN "pushSdkVersion is required for Flutter Push"
        ELSE IF appPlatform = "flutter" /\ Includes(parts, "push") /\ given.mainDartPath = ""
        THEN "mainDartPath is required for Flutter Push"
        ELSE IF appPlatform = "flutter" /\ Includes(parts, "px") /\ given.flutterPxSdkVersion = ""
        THEN "flutterPxSdkVersion is required for Flutter PX"
        ELSE IF appPlatform = "flutter" /\ Includes(parts, "px") /\ given.pxSdkVersion = ""
        THEN "pxSdkVersion is required for Flutter PX"
        ELSE IF appPlatform = "flutter" /\ Includes(parts, "px") /\ given.hanselAppId = ""
        THEN "hanselAppId is required for Flutter PX"
        ELSE IF appPlatform = "flutter" /\ Includes(parts, "px") /\ given.hanselAppKey = ""
        THEN "hanselAppKey is required for Flutter PX"
        ELSE IF appPlatform = "flutter" /\ Includes(parts, "px") /\ given.pxScheme = ""
        THEN "pxScheme is required for Flutter PX"
        ELSE IF appPlatform = "flutter" /\ Includes(parts, "px") /\ given.mainDartPath = ""
        THEN "mainDartPath is required for Flutter PX"
        ELSE IF Includes(parts, "px") /\ given.hanselAppId = "" THEN "hanselAppId is required for PX"
        ELSE IF Includes(parts, "px") /\ given.hanselAppKey = "" THEN "hanselAppKey is required for PX"
        ELSE IF Includes(parts, "px") /\ given.pxScheme = "" THEN "pxScheme is required for PX"
        ELSE ""

\* POST /api/plan: the options it hands to planIntegration
planOptions(disk, opts) ==
    LET appPlatform == platformOf(disk, opts)
        parts == IF appPlatform = "flutter" THEN baseFirst(opts.parts) ELSE opts.parts
        pxInputPresent == opts.inputs.hanselAppId # "" \/ opts.inputs.hanselAppKey # ""
                          \/ opts.inputs.pxScheme # ""
    IN  [opts EXCEPT !.appPlatform = appPlatform,
                     !.parts = IF pxInputPresent /\ ~Includes(parts, "px") /\ appPlatform # "flutter"
                               THEN parts \o << "px" >> ELSE parts]

Ids(changes) == {changes[i].id : i \in 1..Len(changes)}
IdList(changes) == [i \in 1..Len(changes) |-> changes[i].id]

\* ------------------------------------------------------- projects and inputs
MinimalManifest ==
    << Ln("manifest", "", 0), Ln("application", "", 1), Ln("activity", ".MainActivity", 1),
       Ln("intent-filter", "", 2), Ln("action", "MAIN", 3), Ln("category", "LAUNCHER", 3),
       Ln("/intent-filter", "", 2), Ln("/activity", "", 1), Ln("/application", "", 1),
       Ln("/manifest", "", 0) >>

\* the same manifest with permissions declared above <application>
PermissionsManifest ==
    << Ln("manifest", "", 0), Ln("uses-permission", "INTERNET", 1), Ln("uses-permission", "VIBRATE", 1) >>
    \o Slice(MinimalManifest, 2, Len(MinimalManifest))

\* the same manifest already carrying an SMT_APP_ID of an earlier setup
AppIdManifest == InsertAfter(MinimalManifest, 2, MetaDataLines("SMT_APP_ID", "OLD", 1))

\* a manifest without a launcher activity
LibraryManifest ==
    << Ln("manifest", "", 0), Ln("application", "", 1), Ln("/application", "", 1), Ln("/manifest", "", 0) >>

InitialManifests == {MinimalManifest, PermissionsManifest, AppIdManifest, LibraryManifest}

PlainGradle == << Ln("org.gradle.jvmargs", "-Xmx2g", 0), Ln("android.useAndroidX", "true", 0) >>
VersionedGradle ==
    << Ln("org.gradle.jvmargs", "-Xmx2g", 0), Ln("SMARTECH_BASE_SDK_VERSION", "3.7.0", 0),
       Ln("android.useAndroidX", "true", 0) >>

\* the projects the tool is pointed at: <<manifest, gradle.properties>>
InitialProjects ==
    { << MinimalManifest, PlainGradle >>, << PermissionsManifest, VersionedGradle >>,
      << AppIdManifest, PlainGradle >>, << LibraryManifest, VersionedGradle >> }

\* an Application class that already has the imports and every init line
IntegratedApplication ==
    << Ln("package", "com.app", 0), Ln("import", CONTEXT_IMPORT, 0),
       Ln("import", SMARTECH_BASE_PLUGIN_IMPORT, 0), Ln("import", SMARTECH_IMPORT, 0),
       Ln("import", SMARTECH_WEAKREF_IMPORT, 0), Ln("class", "MainApplication", 0),
       Ln("onCreate", "", 1), Ln("super.onCreate", "", 2) >>
    \o SMARTECH_INIT_LINES
    \o << Ln("/onCreate", "", 1), Ln("/class", "", 0) >>

\* a React Native project: android/ with its java source root and an integrated
\* Application class, no Flutter sources
ReactNativeProject(manifest, gradle) ==
    [p \in AllPaths |->
        CASE p = ManifestPath -> File(manifest)
          [] p = GradlePath -> File(gradle)
          [] p = ApplicationPath -> File(IntegratedApplication)
          [] p \in {AndroidDir, JavaRoot} -> File(<<>>)
          [] OTHER -> NoFile]

PartSets == {<< "base" >>, << "base", "px" >>}

\* the inputs of a request for the base part alone; "" stands for an input left out
BaseInputs ==
    [ smartechAppId |-> "APP123", deeplinkScheme |-> "app", autoFetchLocation |-> "unset",
      hanselAppId |-> "", hanselAppKey |-> "", pxScheme |-> "",
      baseSdkVersion |-> "", pushSdkVersion |-> "", pxSdkVersion |-> "",
      flutterBaseSdkVersion |-> "", flutterPushSdkVersion |-> "", flutterPxSdkVersion |-> "",
      mainDartPath |-> MainDartPath, applicationClassPath |-> "", mainActivityPath |-> "",
      firebaseMessagingServicePath |-> "" ]

\* the same with the PX inputs filled in
WithPxInputs(given) == [given EXCEPT !.hanselAppId = "HID", !.hanselAppKey = "HKEY", !.pxScheme = "pxscheme"]

\* the inputs sent along with a selection of parts
InputSets(parts) ==
    { [(IF Includes(parts, "px") THEN WithPxInputs(BaseInputs) ELSE BaseInputs)
          EXCEPT !.autoFetchLocation = location] : location \in {"unset", "true"} }

\* ---------------------------------------- projects and options to plan for
\* lib/main.dart of a Flutter app that has none of the SDK's hooks
BareMainDart ==
    << Ln("import", "package:flutter/material.dart", 0), Ln("main", "", 0), Ln("runApp", "", 1),
       Ln("/main", "", 0), Ln("state-class", "_MyAppState", 0), Ln("return-app", "MaterialApp", 2),
       Ln("/state-class", "", 0) >>

\* the same app with its own PX listener class, not registered
ListenerMainDart == BareMainDart \o << Ln("px-listener-class", "AppDeeplinkListener", 0) >>

FlutterPubspec == << Ln("name", "app", 0), Ln("flutter:", "", 0) >>

\* a Flutter project: pubspec.yaml with a flutter: key, android/ with one source root
FlutterProject(sourceRoot, mainDart) ==
    [p \in AllPaths |->
        CASE p = ManifestPath -> File(MinimalManifest)
          [] p = GradlePath -> File(PlainGradle)
          [] p \in {AndroidDir, sourceRoot} -> File(<<>>)
          [] p = PubspecPath -> File(FlutterPubspec)
          [] p = MainDartPath -> mainDart
          [] OTHER -> NoFile]

\* a folder that holds no android/ project
EmptyProject == [p \in AllPaths |-> NoFile]

\* package.json of a React Native app without the SDK's packages
PlainPackageJson ==
    << Ln("{", "", 0), Ln("name", "app", 1), Ln("dependencies", "", 1), Ln("react-native", "0.72.0", 2),
       Ln("/dependencies", "", 1), Ln("}", "", 0) >>

\* package.json cut off in the middle of an edit: not JSON
BrokenPackageJson ==
    << Ln("{", "", 0), Ln("name", "app", 1), Ln("dependencies", "", 1), Ln("not-json", "<<<<<<< HEAD", 0) >>

\* Application classes short of the SDK's lines: onCreate calls initializeSdk
\* only; onCreate calls nothing of the SDK; the class has no onCreate
InitOnlyApplication ==
    << Ln("package", "com.app", 0), Ln("import", SMARTECH_IMPORT, 0), Ln("class", "MainApplication", 0),
       Ln("onCreate", "", 1), Ln("super.onCreate", "", 2), Ln("initializeSdk", "this", 2),
       Ln("statement", "SoLoader.init(this, false);", 2), Ln("/onCreate", "", 1), Ln("/class", "", 0) >>

BareApplication ==
    << Ln("package", "com.app", 0), Ln("class", "MainApplication", 0), Ln("onCreate", "", 1),
       Ln("super.onCreate", "", 2), Ln("statement", "SoLoader.init(this, false);", 2),
       Ln("/onCreate", "", 1), Ln("/class", "", 0) >>

NoOnCreateApplication ==
    << Ln("package", "com.app", 0), Ln("class", "MainApplication", 0), Ln("/class", "", 0) >>

PlanProjects ==
    { ReactNativeProject(MinimalManifest, PlainGradle),
      [ReactNativeProject(MinimalManifest, PlainGradle) EXCEPT ![ApplicationPath] = File(InitOnlyApplication)],
      [ReactNativeProject(MinimalManifest, PlainGradle) EXCEPT ![ApplicationPath] = File(BareApplication)],
      [ReactNativeProject(MinimalManifest, PlainGradle) EXCEPT ![ApplicationPath] = File(NoOnCreateApplication)],
      [ReactNativeProject(MinimalManifest, PlainGradle) EXCEPT ![PackageJsonPath] = File(PlainPackageJson)],
      [ReactNativeProject(MinimalManifest, PlainGradle) EXCEPT ![PackageJsonPath] = File(BrokenPackageJson)],
      ReactNativeProject(LibraryManifest, VersionedGradle),
      [ReactNativeProject(MinimalManifest, PlainGradle) EXCEPT ![JavaRoot] = NoFile,
                                                               ![ApplicationPath] = NoFile],
      EmptyProject,
      FlutterProject(JavaRoot, NoFile),
      FlutterProject(KotlinRoot, File(BareMainDart)),
      FlutterProject(JavaRoot, File(ListenerMainDart)),
      [FlutterProject(JavaRoot, NoFile) EXCEPT ![JavaRoot] = NoFile] }

AllParts == {"base", "push", "px"}

\* options.parts: the parts ticked, in any order
PlanPartLists ==
    {<<>>} \cup { << a >> : a \in AllParts }
    \cup { parts \in [1..2 -> AllParts] : parts[1] # parts[2] }
    \cup { parts \in [1..3 -> AllParts] : Cardinality({parts[i] : i \in 1..3}) = 3 }

AppPlatforms == {"", "react-native", "flutter", "android-native"}

WithFlutterVersions(given) ==
    [given EXCEPT !.baseSdkVersion = "3.7.6", !.pushSdkVersion = "3.5.13", !.pxSdkVersion = "10.2.12",
                  !.flutterBaseSdkVersion = "3.5.1", !.flutterPushSdkVersion = "3.5.1",
                  !.flutterPxSdkVersion = "1.1.0"]

WithNativePaths(given) ==
    [given EXCEPT !.applicationClassPath = "app/src/main/java/MainApplication.java",
                  !.mainActivityPath = "app/src/main/java/MainActivity.java"]

PlanInputs(px, versions, paths) ==
    LET a == IF px THEN WithPxInputs(BaseInputs) ELSE BaseInputs
        b == IF versions THEN WithFlutterVersions(a) ELSE a
    IN  IF paths THEN WithNativePaths(b) ELSE b

PlanInputSets ==
    { PlanInputs(px, versions, paths) : px \in BOOLEAN, versions \in BOOLEAN, paths \in BOOLEAN }
    \cup { [BaseInputs EXCEPT !.smartechAppId = ""] }

\* what an apply request carries: everything; no selectedChangeIds array; no
\* options; changes without their content snapshots
Shapes == {"full", "noSelectedIds", "noOptions", "noContent"}

StripContent(c) == [c EXCEPT !.hasNewContent = FALSE, !.newContent = <<>>]

\* --------------------------------------------------------------------- state
VARIABLES
    fs,            \* the project's files
    options,       \* the client's IntegrationOptions
    clientPlan,    \* the plan the client last received from /api/plan
    edits,         \* external edits made so far
    pc,            \* where the apply handler stands
    request,       \* the body of the apply request being served
    caller,        \* which call of applyChanges is running: "initial", "retry" or "preview"
    dryRun,        \* applyChanges: its dryRun argument
    loaded,        \* the paths loadFileOrEmpty was called with during this call
    batch,         \* applyChanges: its changes argument
    idx,           \* applyChanges: the change the first loop is at
    fileCache,     \* applyChanges: fileCache, path -> {original, current}
    cacheOrder,    \* applyChanges: the insertion order of fileCache's keys
    flushIdx,      \* applyChanges: the entry the write loop is at
    results,       \* applyChanges: results
    written,       \* the paths fs.writeFile was called with during this call
    diskAtStart,   \* the files as they were when this call of applyChanges began
    attempt,       \* the verify-retry loop's counter
    subBatches,    \* calls of applyChanges the verify-retry loop has made
    firstResults,  \* handler: results (of the initial apply)
    retryResults,  \* handler: retryResults
    remaining,     \* handler: remaining
    other          \* a second call of applyChanges in flight on the same project

vars == << other, fs, options, clientPlan, edits, pc, request, caller, dryRun, loaded, batch, idx, fileCache, cacheOrder,
           flushIdx, results, written, diskAtStart, attempt, subBatches, firstResults,
           retryResults, remaining >>

NoRequest == [changes |-> <<>>, hasSelectedIds |-> FALSE, selectedIds |-> {}, hasOptions |-> FALSE]

EmptyCache == [p \in AllPaths |-> [cached |-> FALSE, original |-> <<>>, current |-> <<>>]]

\* the second call before it is made: its own changes, results and fileCache
NoCall == [pc |-> "idle", batch |-> <<>>, idx |-> 1, cache |-> EmptyCache, order |-> <<>>,
           flushIdx |-> 1, results |-> <<>>]

Init ==
    /\ \E project \in InitialProjects :
          fs = ReactNativeProject(project[1], project[2])
    /\ \E parts \in PartSets : \E given \in InputSets(parts) :
          options = [parts |-> parts, appPlatform |-> "react-native", inputs |-> given]
    /\ clientPlan = <<>>
    /\ edits = 0
    /\ pc = "idle"
    /\ request = NoRequest
    /\ caller = "none"
    /\ dryRun = TRUE
    /\ loaded = {}
    /\ batch = <<>>
    /\ idx = 1
    /\ fileCache = EmptyCache
    /\ cacheOrder = <<>>
    /\ flushIdx = 1
    /\ results = <<>>
    /\ written = <<>>
    /\ diskAtStart = fs
    /\ attempt = 0
    /\ subBatches = 0
    /\ firstResults = <<>>
    /\ retryResults = <<>>
    /\ remaining = <<>>
    /\ other = NoCall

\* ------------------------------------------------------------- applyChanges
\* faulty variant: a result that does not carry the change's id
ApplyResultWithoutId(id, applied, message) ==
    [changeId |-> "", applied |-> applied, message |-> message]

\* type ApplyResult = { changeId; applied; message }
ApplyResult(changeId, applied, message) == [changeId |-> changeId, applied |-> applied, message |-> message]

\* faulty variants of the fallback condition, against which the properties are tried:
\* one that forgets the buffer must be pristine, one that forgets newContent may be absent
FallbackWithoutPristineCheck(c, current, original) == c.hasNewContent /\ c.newContent # <<>>
FallbackWithoutContentCheck(c, current, original) == current = original

\* change.newContent && current === original
FallbackAllowed(c, current, original) == c.hasNewContent /\ c.newContent # <<>> /\ current = original

\* faulty variant: every patch is applied to the content loaded from disk
CurrentFromDisk(c, disk, cache) ==
    IF cache[c.filePath].cached THEN cache[c.filePath].original ELSE loadFileOrEmpty(disk, c.filePath)

\* the buffers the loop body works on: cached?.original ?? loadFileOrEmpty(path), cached?.current ?? original
OriginalOf(c, disk, cache) ==
    IF cache[c.filePath].cached THEN cache[c.filePath].original ELSE loadFileOrEmpty(disk, c.filePath)
CurrentOf(c, disk, cache) ==
    IF cache[c.filePath].cached THEN cache[c.filePath].current ELSE OriginalOf(c, disk, cache)

\* faulty variant: a change without a patch still gets its file's text into
\* fileCache, so the write loop writes the file
PatchOneCachingSkipped(c, dry, disk, cache) ==
    LET original == OriginalOf(c, disk, cache)
        current == CurrentOf(c, disk, cache)
        patched == applyPatch(current, c.hunks, FuzzFactor)
        keep == [cached |-> FALSE, original |-> <<>>, current |-> <<>>]
    IN  IF dry
        THEN [result |-> ApplyResult(c.id, FALSE, "Dry run: no changes applied."),
              set |-> FALSE, entry |-> keep]
        ELSE IF ~c.hasPatch
        THEN [result |-> ApplyResult(c.id, FALSE, "No patch available for this change."),
              set |-> TRUE, entry |-> [cached |-> TRUE, original |-> original, current |-> current]]
        ELSE IF ~patched.ok
             THEN [result |-> ApplyResult(c.id, FALSE, "Failed to apply patch."),
                   set |-> FALSE, entry |-> keep]
             ELSE [result |-> ApplyResult(c.id, TRUE, "Applied change."),
                   set |-> TRUE,
                   entry |-> [cached |-> TRUE, original |-> original, current |-> patched.lines]]

\* faulty variant: the loop body without its dry-run branch
PatchOneWithoutDryRun(c, dry, disk, cache) ==
    LET original == OriginalOf(c, disk, cache)
        current == CurrentOf(c, disk, cache)
        patched == applyPatch(current, c.hunks, FuzzFactor)
    IN  IF ~c.hasPatch
        THEN [result |-> ApplyResult(c.id, FALSE, "No patch available for this change."),
              set |-> FALSE, entry |-> [cached |-> FALSE, original |-> <<>>, current |-> <<>>]]
        ELSE IF patched.ok
             THEN [result |-> ApplyResult(c.id, TRUE, "Applied change."), set |-> TRUE,
                   entry |-> [cached |-> TRUE, original |-> original, current |-> patched.lines]]
             ELSE [result |-> ApplyResult(c.id, FALSE, "Failed to apply patch."),
                   set |-> FALSE, entry |-> [cached |-> FALSE, original |-> <<>>, current |-> <<>>]]

\* faulty variant: the loop body without its `if (!change.patch)` branch, so
\* that an empty patch goes to applyPatch (which returns the buffer as it is)
PatchOneWithoutSkip(c, dry, disk, cache) ==
    LET original == OriginalOf(c, disk, cache)
        current == CurrentOf(c, disk, cache)
        patched == applyPatch(current, c.hunks, FuzzFactor)
    IN  IF dry
        THEN [result |-> ApplyResult(c.id, FALSE, "Dry run: no changes applied."),
              set |-> FALSE, entry |-> [cached |-> FALSE, original |-> <<>>, current |-> <<>>]]
        ELSE IF patched.ok
             THEN [result |-> ApplyResult(c.id, TRUE, "Applied change."), set |-> TRUE,
                   entry |-> [cached |-> TRUE, original |-> original, current |-> patched.lines]]
             ELSE [result |-> ApplyResult(c.id, FALSE, "Failed to apply patch."),
                   set |-> FALSE, entry |-> [cached |-> FALSE, original |-> <<>>, current |-> <<>>]]

\* one pass of the first loop's body: the ApplyResult pushed, and the fileCache
\* entry set (set = FALSE when the pass leaves fileCache alone)
PatchOne(c, dry, disk, cache) ==
    LET original == OriginalOf(c, disk, cache)
        current == CurrentOf(c, disk, cache)
        patched == applyPatch(current, c.hunks, FuzzFactor)
        keep == [cached |-> FALSE, original |-> <<>>, current |-> <<>>]
    IN  IF dry
        THEN [result |-> ApplyResult(c.id, FALSE, "Dry run: no changes applied."),
              set |-> FALSE, entry |-> keep]
        ELSE IF ~c.hasPatch
        THEN [result |-> ApplyResult(c.id, FALSE, "No patch available for this change."),
              set |-> FALSE, entry |-> keep]
        ELSE IF ~patched.ok
             THEN IF FallbackAllowed(c, current, original)
                  THEN [result |-> ApplyResult(c.id, TRUE, "Applied change with fallback content."),
                        set |-> TRUE,
                        entry |-> [cached |-> TRUE, original |-> original, current |-> c.newContent]]
                  ELSE [result |-> ApplyResult(c.id, FALSE, "Failed to apply patch."),
                        set |-> FALSE, entry |-> keep]
             ELSE [result |-> ApplyResult(c.id, TRUE, "Applied change."),
                   set |-> TRUE,
                   entry |-> [cached |-> TRUE, original |-> original, current |-> patched.lines]]

\* faulty variant: an entry per successful change instead of one per path
KeysPerChange(order, filePath) == Append(order, filePath)

\* Map.set keeps a key's first position: fileCache.entries() yields each path once
KeysAfterSet(order, filePath) ==
    IF \E i \in 1..Len(order) : order[i] = filePath THEN order ELSE Append(order, filePath)

\* faulty variant: the loop is left at the first change that is not applied
NextChangeOrAbort(i, outcome) == IF outcome.result.applied THEN i + 1 ELSE i + MaxSelected + 8

\* the change the loop goes to after the one at i (`continue` on every outcome)
NextChange(i, outcome) == i + 1

\* the pass of the loop body for change c calls loadFileOrEmpty: the change is
\* neither skipped nor served from fileCache
LoadsFile(c, dry, cache) == ~dry /\ c.hasPatch /\ ~cache[c.filePath].cached

\* a call applyChanges(changes, dry) begins
BeginApply(changes, dry, who) ==
    /\ batch' = changes
    /\ dryRun' = dry
    /\ loaded' = {}
    /\ caller' = who
    /\ idx' = 1
    /\ fileCache' = EmptyCache
    /\ cacheOrder' = <<>>
    /\ flushIdx' = 1
    /\ results' = <<>>
    /\ written' = <<>>
    /\ diskAtStart' = fs
    /\ pc' = IF changes = <<>> THEN "returned" ELSE "patch"

\* for (const change of changes) { ... }: one change
PatchStep ==
    /\ pc = "patch"
    /\ idx <= Len(batch)
    /\ LET out == PatchOne(batch[idx], dryRun, fs, fileCache)
           order == IF out.set THEN KeysAfterSet(cacheOrder, batch[idx].filePath) ELSE cacheOrder
           next == NextChange(idx, out)
       IN  /\ results' = Append(results, out.result)
           /\ loaded' = IF LoadsFile(batch[idx], dryRun, fileCache)
                         THEN loaded \cup {batch[idx].filePath} ELSE loaded
           /\ fileCache' = IF out.set THEN [fileCache EXCEPT ![batch[idx].filePath] = out.entry]
                           ELSE fileCache
           /\ cacheOrder' = order
           /\ idx' = next
           /\ pc' = IF next <= Len(batch) THEN "patch"
                    ELSE IF order = <<>> THEN "returned" ELSE "flush"
    /\ UNCHANGED << other, fs, options, clientPlan, edits, request, caller, dryRun, batch, flushIdx, written,
                    diskAtStart, attempt, subBatches, firstResults, retryResults, remaining >>

\* for (const [filePath, payload] of fileCache.entries()) { ... writeFile }: one entry
FlushStep ==
    /\ pc = "flush"
    /\ flushIdx <= Len(cacheOrder)
    /\ fs' = [fs EXCEPT ![cacheOrder[flushIdx]] = File(fileCache[cacheOrder[flushIdx]].current)]
    /\ written' = Append(written, cacheOrder[flushIdx])
    /\ flushIdx' = flushIdx + 1
    /\ pc' = IF flushIdx + 1 <= Len(cacheOrder) THEN "flush" ELSE "returned"
    /\ UNCHANGED << other, options, clientPlan, edits, request, caller, dryRun, loaded, batch, idx, fileCache, cacheOrder,
                    results, diskAtStart, attempt, subBatches, firstResults, retryResults, remaining >>

\* ------------------------------------------------------------------- client
\* POST /api/plan: the client receives a plan of the project as it is
PlanRequest ==
    /\ pc = "idle"
    /\ clientPlan = <<>>
    /\ planRejection(fs, options) = ""
    /\ planIntegration(fs, planOptions(fs, options)) # <<>>
    /\ clientPlan' = planIntegration(fs, planOptions(fs, options))
    /\ UNCHANGED << other, fs, options, edits, pc, request, caller, dryRun, loaded, batch, idx, fileCache, cacheOrder,
                    flushIdx, results, written, diskAtStart, attempt, subBatches, firstResults,
                    retryResults, remaining >>

\* POST /api/plan answers 400
PlanRejected ==
    /\ pc = "idle"
    /\ clientPlan = <<>>
    /\ planRejection(fs, options) # ""
    /\ pc' = "rejected"
    /\ UNCHANGED << other, fs, options, clientPlan, edits, request, caller, dryRun, loaded, batch, idx, fileCache,
                    cacheOrder, flushIdx, results, written, diskAtStart, attempt, subBatches, firstResults,
                    retryResults, remaining >>

\* the desktop's smartech:plan-integration: planIntegration(await normalizeOptions(options))
DesktopPlan ==
    /\ pc = "idle"
    /\ clientPlan = <<>>
    /\ clientPlan' = planIntegration(fs, normalizeOptions(fs, options))
    /\ pc' = "desktop"
    /\ UNCHANGED << other, fs, options, edits, request, caller, dryRun, loaded, batch, idx, fileCache,
                    cacheOrder, flushIdx, results, written, diskAtStart, attempt, subBatches, firstResults,
                    retryResults, remaining >>

\* a verification pass that creates the PX listeners file it proposes (faulty variant)
VerifyPassCreatingListeners ==
    /\ pc = "idle"
    /\ clientPlan = <<>>
    /\ options.parts # <<>>
    /\ clientPlan' = planIntegration(fs, verifyOptions(fs, options))
    /\ fs' = [fs EXCEPT ![PxListenersPath] = File(PxListenerLines)]
    /\ pc' = "verified"
    /\ UNCHANGED << other, options, edits, request, caller, dryRun, loaded, batch, idx, fileCache,
                    cacheOrder, flushIdx, results, written, diskAtStart, attempt, subBatches, firstResults,
                    retryResults, remaining >>

\* POST /api/apply with options: the planning pass of its verification,
\* const verifyPlan = await planIntegration(options)
VerifyPass ==
    /\ pc = "idle"
    /\ clientPlan = <<>>
    /\ options.parts # <<>>
    /\ clientPlan' = planIntegration(fs, verifyOptions(fs, options))
    /\ pc' = "verified"
    /\ UNCHANGED << other, fs, options, edits, request, caller, dryRun, loaded, batch, idx, fileCache,
                    cacheOrder, flushIdx, results, written, diskAtStart, attempt, subBatches, firstResults,
                    retryResults, remaining >>

\* the project is edited outside the tool after the plan was made (another
\* revision of a file is checked out), so the plan's diffs are out of date
ExternalEdit ==
    /\ pc = "idle"
    /\ clientPlan # <<>>
    /\ edits < MaxEdits
    /\ \E content \in InitialManifests :
          /\ fs[ManifestPath] # File(content)
          /\ fs' = [fs EXCEPT ![ManifestPath] = File(content)]
    /\ edits' = edits + 1
    /\ UNCHANGED << other, options, clientPlan, pc, request, caller, dryRun, loaded, batch, idx, fileCache, cacheOrder,
                    flushIdx, results, written, diskAtStart, attempt, subBatches, firstResults,
                    retryResults, remaining >>

\* the changes of the client's plan whose ids are ticked, in plan order
RECURSIVE Filter(_, _)
Filter(changes, ids) ==
    IF changes = <<>> THEN <<>>
    ELSE (IF Head(changes).id \in ids THEN << Head(changes) >> ELSE <<>>) \o Filter(Tail(changes), ids)

RECURSIVE MapStrip(_)
MapStrip(changes) ==
    IF changes = <<>> THEN <<>> ELSE << StripContent(Head(changes)) >> \o MapStrip(Tail(changes))

\* POST /api/apply arrives: const results = await applyChanges(changes, false)
ApplyRequest ==
    /\ pc = "idle"
    /\ clientPlan # <<>>
    /\ \E sel \in SUBSET Ids(clientPlan) : \E shape \in Shapes :
          /\ sel # {}
          /\ Cardinality(sel) <= MaxSelected
          /\ LET chosen == Filter(clientPlan, sel)
                 sent == IF shape = "noContent" THEN MapStrip(chosen) ELSE chosen
             IN  /\ request' = [ changes |-> sent,
                                 hasSelectedIds |-> shape # "noSelectedIds",
                                 selectedIds |-> IF shape # "noSelectedIds" THEN sel ELSE {},
                                 hasOptions |-> shape # "noOptions" ]
                 /\ BeginApply(sent, FALSE, "initial")
    /\ UNCHANGED << other, fs, options, clientPlan, edits, attempt, subBatches, firstResults,
                    retryResults, remaining >>

\* a caller of the engine previews ticked changes: applyChanges(changes), whose
\* dryRun parameter defaults to true
PreviewCall ==
    /\ pc = "idle"
    /\ clientPlan # <<>>
    /\ \E sel \in SUBSET Ids(clientPlan) :
          /\ sel # {}
          /\ Cardinality(sel) <= MaxSelected
          /\ BeginApply(Filter(clientPlan, sel), TRUE, "preview")
    /\ UNCHANGED << other, fs, options, clientPlan, edits, request, attempt, subBatches, firstResults,
                    retryResults, remaining >>

\* the preview's applyChanges has returned its results
PreviewReturned ==
    /\ pc = "returned"
    /\ caller = "preview"
    /\ firstResults' = results
    /\ pc' = "done"
    /\ UNCHANGED << other, fs, options, clientPlan, edits, request, caller, dryRun, loaded, batch, idx, fileCache,
                    cacheOrder, flushIdx, results, written, diskAtStart, attempt, subBatches,
                    retryResults, remaining >>

\* --------------------------------------------------- POST /api/apply handler
\* faulty variants: the verify plan taken unfiltered; a loop counter that never
\* advances
filterNothing(changes, req) == changes
SameAttempt(a) == a

\* selectedIds ? plan.changes.filter(c => selectedIds.includes(c.id)) : plan.changes
filterSelected(changes, req) == IF req.hasSelectedIds THEN Filter(changes, req.selectedIds) ELSE changes

\* attempt += 1
NextAttempt(a) == a + 1

\* the initial applyChanges has returned: if (options?.rootPath && options?.parts?.length)
InitialReturned ==
    /\ pc = "returned"
    /\ caller = "initial"
    /\ firstResults' = results
    /\ attempt' = 0
    /\ pc' = IF request.hasOptions THEN "verify" ELSE "done"
    /\ UNCHANGED << other, fs, options, clientPlan, edits, request, caller, dryRun, loaded, batch, idx, fileCache, cacheOrder,
                    flushIdx, results, written, diskAtStart, subBatches, retryResults, remaining >>

\* a round of the loop whose verify plan holds no selected change: break
VerifyClean ==
    /\ pc = "verify"
    /\ attempt < maxAttempts
    /\ filterSelected(planIntegration(fs, verifyOptions(fs, options)), request) = <<>>
    /\ remaining' = <<>>
    /\ pc' = "final"
    /\ UNCHANGED << other, fs, options, clientPlan, edits, request, caller, dryRun, loaded, batch, idx, fileCache, cacheOrder,
                    flushIdx, results, written, diskAtStart, attempt, subBatches, firstResults,
                    retryResults >>

\* a round of the loop whose verify plan still holds selected changes: apply them
VerifyRetry ==
    /\ pc = "verify"
    /\ attempt < maxAttempts
    /\ LET filtered == filterSelected(planIntegration(fs, verifyOptions(fs, options)), request)
       IN  /\ filtered # <<>>
           /\ subBatches < MaxSubBatches
           /\ remaining' = IdList(filtered)
           /\ BeginApply(filtered, FALSE, "retry")
    /\ subBatches' = subBatches + 1
    /\ UNCHANGED << other, fs, options, clientPlan, edits, request, attempt, firstResults, retryResults >>

\* the retry's applyChanges has returned: retryResults = retryResults.concat(attemptResults)
RetryReturned ==
    /\ pc = "returned"
    /\ caller = "retry"
    /\ retryResults' = retryResults \o results
    /\ attempt' = NextAttempt(attempt)
    /\ pc' = "verify"
    /\ UNCHANGED << other, fs, options, clientPlan, edits, request, caller, dryRun, loaded, batch, idx, fileCache, cacheOrder,
                    flushIdx, results, written, diskAtStart, subBatches, firstResults, remaining >>

\* attempt < maxAttempts is false: the loop is left
LoopExhausted ==
    /\ pc = "verify"
    /\ attempt >= maxAttempts
    /\ pc' = "final"
    /\ UNCHANGED << other, fs, options, clientPlan, edits, request, caller, dryRun, loaded, batch, idx, fileCache, cacheOrder,
                    flushIdx, results, written, diskAtStart, attempt, subBatches, firstResults,
                    retryResults, remaining >>

\* const finalPlan = await planIntegration(options); remaining = finalFiltered ids; res.json(...)
FinalStep ==
    /\ pc = "final"
    /\ remaining' = IdList(filterSelected(planIntegration(fs, verifyOptions(fs, options)), request))
    /\ pc' = "done"
    /\ UNCHANGED << other, fs, options, clientPlan, edits, request, caller, dryRun, loaded, batch, idx, fileCache, cacheOrder,
                    flushIdx, results, written, diskAtStart, attempt, subBatches, firstResults,
                    retryResults >>

Next ==
    \/ PlanRequest
    \/ ExternalEdit
    \/ ApplyRequest
    \/ PreviewCall
    \/ PreviewReturned
    \/ PatchStep
    \/ FlushStep
    \/ InitialReturned
    \/ VerifyClean
    \/ VerifyRetry
    \/ RetryReturned
    \/ LoopExhausted
    \/ FinalStep

Spec == Init /\ [][Next]_vars

\* planning alone, for every project, platform, selection of parts and inputs
PlanInit ==
    /\ fs \in PlanProjects
    /\ options \in [parts : PlanPartLists, appPlatform : AppPlatforms, inputs : PlanInputSets]
    /\ clientPlan = <<>>
    /\ edits = 0
    /\ pc = "idle"
    /\ request = NoRequest
    /\ caller = "none"
    /\ dryRun = TRUE
    /\ loaded = {}
    /\ batch = <<>>
    /\ idx = 1
    /\ fileCache = EmptyCache
    /\ cacheOrder = <<>>
    /\ flushIdx = 1
    /\ results = <<>>
    /\ written = <<>>
    /\ diskAtStart = fs
    /\ attempt = 0
    /\ subBatches = 0
    /\ firstResults = <<>>
    /\ retryResults = <<>>
    /\ remaining = <<>>
    /\ other = NoCall

PlanNext == PlanRequest \/ PlanRejected \/ DesktopPlan \/ VerifyPass

PlanSpec == PlanInit /\ [][PlanNext]_vars

\* ------------------------------- projects that lack files the rules ask for
\* the apply pipeline on a Flutter app whose lib/main.dart is not there and on
\* a React Native app without App.js and index.js, with the push part asked for
AdvisoryInit ==
    /\ \/ /\ fs = FlutterProject(JavaRoot, NoFile)
          /\ \E parts \in {<< "base", "push" >>, << "base", "px" >>} :
                options = [parts |-> parts, appPlatform |-> "flutter",
                           inputs |-> IF Includes(parts, "px")
                                      THEN WithPxInputs(WithFlutterVersions(BaseInputs))
                                      ELSE WithFlutterVersions(BaseInputs)]
       \/ /\ fs = ReactNativeProject(MinimalManifest, PlainGradle)
          /\ options = [parts |-> << "base", "push" >>, appPlatform |-> "react-native",
                        inputs |-> BaseInputs]
    /\ clientPlan = <<>>
    /\ edits = 0
    /\ pc = "idle"
    /\ request = NoRequest
    /\ caller = "none"
    /\ dryRun = TRUE
    /\ loaded = {}
    /\ batch = <<>>
    /\ idx = 1
    /\ fileCache = EmptyCache
    /\ cacheOrder = <<>>
    /\ flushIdx = 1
    /\ results = <<>>
    /\ written = <<>>
    /\ diskAtStart = fs
    /\ attempt = 0
    /\ subBatches = 0
    /\ firstResults = <<>>
    /\ retryResults = <<>>
    /\ remaining = <<>>
    /\ other = NoCall

AdvisorySpec == AdvisoryInit /\ [][Next]_vars

\* ------------------------------------------ a second, concurrent apply call
\* another request reaches POST /api/apply while the first call is under way or
\* has returned: applyChanges(changes, false) with one ticked change, on its own
\* results and fileCache and on the same files
OtherApply ==
    /\ other.pc = "idle"
    /\ caller = "initial"
    /\ \E id \in Ids(clientPlan) :
          other' = [NoCall EXCEPT !.pc = "patch", !.batch = Filter(clientPlan, {id})]
    /\ UNCHANGED << fs, options, clientPlan, edits, pc, request, caller, dryRun, loaded, batch, idx,
                    fileCache, cacheOrder, flushIdx, results, written, diskAtStart, attempt, subBatches,
                    firstResults, retryResults, remaining >>

\* the second call's loop over its changes: one change
OtherPatchStep ==
    /\ other.pc = "patch"
    /\ other.idx <= Len(other.batch)
    /\ LET c == other.batch[other.idx]
           out == PatchOne(c, FALSE, fs, other.cache)
           order == IF out.set THEN KeysAfterSet(other.order, c.filePath) ELSE other.order
           next == NextChange(other.idx, out)
       IN  other' = [other EXCEPT
                        !.results = Append(other.results, out.result),
                        !.cache = IF out.set THEN [other.cache EXCEPT ![c.filePath] = out.entry]
                                  ELSE other.cache,
                        !.order = order,
                        !.idx = next,
                        !.pc = IF next <= Len(other.batch) THEN "patch"
                               ELSE IF order = <<>> THEN "returned" ELSE "flush"]
    /\ UNCHANGED << fs, options, clientPlan, edits, pc, request, caller, dryRun, loaded, batch, idx,
                    fileCache, cacheOrder, flushIdx, results, written, diskAtStart, attempt, subBatches,
                    firstResults, retryResults, remaining >>

\* a write that patches the file as it is on disk at write time (faulty variant)
OtherFlushStepOnFreshRead ==
    /\ other.pc = "flush"
    /\ other.flushIdx <= Len(other.order)
    /\ LET filePath == other.order[other.flushIdx]
           fresh == applyPatch(loadFileOrEmpty(fs, filePath), other.batch[1].hunks, FuzzFactor)
       IN  fs' = [fs EXCEPT ![filePath] =
                     File(IF fresh.ok THEN fresh.lines ELSE other.cache[filePath].current)]
    /\ other' = [other EXCEPT !.flushIdx = other.flushIdx + 1,
                              !.pc = IF other.flushIdx + 1 <= Len(other.order) THEN "flush" ELSE "returned"]
    /\ UNCHANGED << options, clientPlan, edits, pc, request, caller, dryRun, loaded, batch, idx,
                    fileCache, cacheOrder, flushIdx, results, written, diskAtStart, attempt, subBatches,
                    firstResults, retryResults, remaining >>

\* the second call's write loop: one entry of its fileCache
OtherFlushStep ==
    /\ other.pc = "flush"
    /\ other.flushIdx <= Len(other.order)
    /\ fs' = [fs EXCEPT ![other.order[other.flushIdx]] =
                 File(other.cache[other.order[other.flushIdx]].current)]
    /\ other' = [other EXCEPT !.flushIdx = other.flushIdx + 1,
                              !.pc = IF other.flushIdx + 1 <= Len(other.order) THEN "flush" ELSE "returned"]
    /\ UNCHANGED << options, clientPlan, edits, pc, request, caller, dryRun, loaded, batch, idx,
                    fileCache, cacheOrder, flushIdx, results, written, diskAtStart, attempt, subBatches,
                    firstResults, retryResults, remaining >>

\* two apply calls on one project: the handler's initial applyChanges and a
\* second call, their steps interleaved in every way the awaits allow
RaceNext ==
    \/ PlanRequest
    \/ ApplyRequest
    \/ PatchStep
    \/ FlushStep
    \/ OtherApply
    \/ OtherPatchStep
    \/ OtherFlushStep

RaceSpec == Init /\ [][RaceNext]_vars

\* ------------------------------------------------------------- properties
\* fs.writeFile calls made for path p by the running call of applyChanges
WriteCount(p) == Cardinality({k \in 1..Len(written) : written[k] = p})

\* some change of the batch was applied to the buffer of path p
AppliedTo(p) == \E i \in 1..Len(results) : batch[i].filePath = p /\ results[i].applied

\* the distinct files the batch's applied changes touch
TouchedFiles == {p \in Paths : AppliedTo(p)}

\* C1: when a call applyChanges(changes, false) returns, each file an applied
\* change touched has been written exactly once and no other file has been
\* written, so a batch that touches K distinct files makes exactly K writes,
\* however many changes it holds; while the call runs no file is written twice.
C1WritesPerFile ==
    /\ \A p \in Paths : WriteCount(p) <= 1
    /\ pc = "returned" =>
          /\ \A p \in Paths : WriteCount(p) = (IF AppliedTo(p) THEN 1 ELSE 0)
          /\ Len(written) = Cardinality(TouchedFiles)

\* a returned batch of two applied changes to one file, written once
C1Witness ==
    /\ pc = "returned"
    /\ Len(batch) = 2
    /\ batch[1].filePath = batch[2].filePath
    /\ results[1].applied /\ results[2].applied
    /\ written = << batch[1].filePath >>

\* the message of the result the loop pushed in the step just taken
PushedMessage == results'[Len(results')].message

\* the first loop of applyChanges handles the change at idx in this step
HandlesChange == pc = "patch" /\ Len(results') = Len(results) + 1

\* C2: a step of applyChanges that applies a change by whole-file fallback finds
\* the file's buffer equal to the content loaded from disk and replaces it with
\* the change's newContent; a step that handles a failing patch while the buffer
\* already differs from the loaded content leaves every buffer as it is.
C2FallbackOnlyPristine ==
    [][ HandlesChange =>
          LET c == batch[idx]
              original == OriginalOf(c, fs, fileCache)
              current == CurrentOf(c, fs, fileCache)
          IN  /\ PushedMessage = "Applied change with fallback content." =>
                    /\ current = original
                    /\ fileCache'[c.filePath] = [cached |-> TRUE, original |-> original, current |-> c.newContent]
              /\ (c.hasPatch /\ ~applyPatch(current, c.hunks, FuzzFactor).ok /\ current # original) =>
                    /\ fileCache' = fileCache
                    /\ PushedMessage = "Failed to apply patch." ]_vars

\* a change carrying newContent whose patch failed and was refused the fallback
\* because an earlier change of the batch had already modified the file's buffer
C2Witness ==
    \E i \in 1..Len(results) : \E j \in 1..(i - 1) :
        /\ batch[i].hasNewContent
        /\ results[i] = ApplyResult(batch[i].id, FALSE, "Failed to apply patch.")
        /\ batch[j].filePath = batch[i].filePath
        /\ results[j].applied
        /\ fileCache[batch[i].filePath].current # fileCache[batch[i].filePath].original

\* C3: once the SMT_APP_ID change planned for a manifest that lacked the key has
\* been applied and written (alone, to the content it was planned against), the
\* base rules run against the resulting manifest propose no change for that key.
C3RerunProposesNothing ==
    ( /\ pc = "returned" /\ caller = "initial" /\ edits = 0
      /\ Len(batch) = 1
      /\ batch[1].id = "android-manifest-metadata-appid"
      /\ results[1].applied
      /\ ~IncludesName(loadFileOrEmpty(diskAtStart, ManifestPath), "SMT_APP_ID") )
    => "android-manifest-metadata-appid" \notin Ids(runBaseRules(fs, options.inputs))

\* C4: every mutator is idempotent on the manifest and the gradle.properties the
\* project holds: applied to its own output it returns that output.
C4MutatorsIdempotent ==
    LET m == loadFileOrEmpty(fs, ManifestPath)
        g == loadFileOrEmpty(fs, GradlePath)
        given == options.inputs
        act == IF findLauncherActivity(m) = "" THEN ".MainActivity" ELSE findLauncherActivity(m)
    IN  /\ ensurePxIntentFilterContent(ensurePxIntentFilterContent(m, act, given.pxScheme), act, given.pxScheme)
              = ensurePxIntentFilterContent(m, act, given.pxScheme)
        /\ ensureHanselMetaContent(ensureHanselMetaContent(m, given.hanselAppId, given.hanselAppKey),
                                   given.hanselAppId, given.hanselAppKey)
              = ensureHanselMetaContent(m, given.hanselAppId, given.hanselAppKey)
        /\ ensureManifestMetaDataContent(ensureManifestMetaDataContent(m, given.smartechAppId), given.smartechAppId)
              = ensureManifestMetaDataContent(m, given.smartechAppId)
        /\ ensureManifestFlagMetaContent(ensureManifestFlagMetaContent(m, "SMT_IS_AUTO_FETCHED_LOCATION", "1"),
                                         "SMT_IS_AUTO_FETCHED_LOCATION", "1")
              = ensureManifestFlagMetaContent(m, "SMT_IS_AUTO_FETCHED_LOCATION", "1")
        /\ ensureGradlePropertyContent(ensureGradlePropertyContent(g, "SMARTECH_BASE_SDK_VERSION",
                                                                   DEFAULT_BASE_SDK_VERSION),
                                       "SMARTECH_BASE_SDK_VERSION", DEFAULT_BASE_SDK_VERSION)
              = ensureGradlePropertyContent(g, "SMARTECH_BASE_SDK_VERSION", DEFAULT_BASE_SDK_VERSION)

\* what is left of a request: the rounds of the verify-retry loop still open
\* (0 once the request is answered), and the steps left in the running call of
\* applyChanges
Stage ==
    CASE pc = "done" -> 0
      [] pc = "final" -> 1
      [] pc = "verify" -> 2 * (maxAttempts - attempt) + 2
      [] pc \in {"patch", "flush", "returned"} /\ caller = "retry" -> 2 * (maxAttempts - attempt) + 1
      [] OTHER -> 2 * maxAttempts + 3
Position ==
    CASE pc = "patch" -> Len(batch) - idx + Cardinality(Paths) + 2
      [] pc = "flush" -> Len(cacheOrder) - flushIdx + 2
      [] pc = "returned" -> 1
      [] OTHER -> 0

\* C5: the verify-retry loop ends within its budget: its counter never passes
\* maxAttempts, a request being served can always take its next step, and every
\* step lowers the pair <<Stage, Position>> of naturals, so no request is served
\* for ever, whether or not its remaining changes ever become none.
C5LoopTerminates ==
    /\ [](/\ attempt <= maxAttempts
          /\ Stage >= 0 /\ Position >= 0
          /\ pc = "patch" => idx <= Len(batch)
          /\ pc = "flush" => flushIdx <= Len(cacheOrder)
          /\ pc = "returned" => caller \in {"initial", "retry", "preview"}
          /\ (pc = "verify" /\ attempt < maxAttempts) => subBatches < MaxSubBatches)
    /\ [][ pc \notin {"idle", "done"} =>
             \/ Stage' < Stage
             \/ Stage' = Stage /\ Position' < Position ]_vars

\* a request answered after the budget was used up with changes still remaining
C5Witness == pc = "done" /\ attempt = maxAttempts /\ remaining # <<>>

\* the ids the plan of the project as it now is proposes
ProposedNow == Ids(planIntegration(fs, verifyOptions(fs, options)))

C7AtMostTwoSubBatches == subBatches <= 2

\* a request answered after 2 sub-batches with two changes still unsatisfied
C7Witness == pc = "done" /\ subBatches = 2 /\ Len(remaining) >= 2

\* C8: a step of applyChanges (dryRun false) that handles a change whose patch does not apply
\* and that carries no newContent pushes the result {changeId, applied: false,
\* "Failed to apply patch."}, leaves every buffer as it is, and goes on to the
\* next change or to the end of the loop: nothing is thrown.
C8FailedWithoutFallback ==
    [][ ( /\ pc = "patch" /\ ~dryRun
          /\ batch[idx].hasPatch
          /\ ~batch[idx].hasNewContent
          /\ ~applyPatch(CurrentOf(batch[idx], fs, fileCache), batch[idx].hunks, FuzzFactor).ok )
        => /\ results' = Append(results, [ changeId |-> batch[idx].id, applied |-> FALSE,
                                           message |-> "Failed to apply patch." ])
           /\ fileCache' = fileCache
           /\ idx' = idx + 1
           /\ pc' \in {"patch", "flush", "returned"} ]_vars

\* a returned batch holding a change without newContent whose patch failed on
\* the file as loaded from disk
C8Witness ==
    /\ pc = "returned"
    /\ \E i \in 1..Len(results) :
          /\ batch[i].hasPatch /\ ~batch[i].hasNewContent
          /\ results[i] = ApplyResult(batch[i].id, FALSE, "Failed to apply patch.")
          /\ \A j \in 1..(i - 1) : batch[j].filePath # batch[i].filePath

\* the change at j is the batch's only change to its file and its patch applies
\* to that file as it was on disk when the call began
SucceedsAlone(j) ==
    /\ batch[j].hasPatch
    /\ \A k \in 1..Len(batch) : k # j => batch[k].filePath # batch[j].filePath
    /\ applyPatch(loadFileOrEmpty(diskAtStart, batch[j].filePath), batch[j].hunks, FuzzFactor).ok

\* the change at i was handled and not applied
Failed(i) == i <= Len(results) /\ ~results[i].applied

\* C9: when a call of applyChanges with dryRun false returns, a change that succeeds on its own
\* file is reported applied and its patched content is on disk, whether a change
\* to a different file failed before it or after it in the batch.
C9BatchResilience ==
    (pc = "returned" /\ ~dryRun) =>
        \A i \in 1..Len(batch) : \A j \in 1..Len(batch) :
            (batch[i].filePath # batch[j].filePath /\ Failed(i) /\ SucceedsAlone(j)) =>
                /\ j <= Len(results)
                /\ results[j].applied
                /\ WriteCount(batch[j].filePath) = 1
                /\ fs[batch[j].filePath] =
                      File(applyPatch(loadFileOrEmpty(diskAtStart, batch[j].filePath),
                                      batch[j].hunks, FuzzFactor).lines)

\* a returned batch whose first change failed to patch the manifest and whose
\* second change was applied to gradle.properties
C9Witness ==
    /\ pc = "returned"
    /\ Len(batch) = 2
    /\ batch[1].filePath = ManifestPath /\ batch[2].filePath = GradlePath
    /\ results[1] = ApplyResult(batch[1].id, FALSE, "Failed to apply patch.")
    /\ results[2].applied
    /\ written = << GradlePath >>

\* the lines a change's diff adds, and whether the diff removes none
AddedLines(c) == LET adds == SelectSeq(c.hunks[1].ops, LAMBDA o : o[1] = "+")
                 IN  [k \in 1..Len(adds) |-> adds[k][2]]
IsInsertion(c) == c.hasPatch /\ c.hunks # <<>> /\ \A k \in 1..Len(c.hunks[1].ops) : c.hunks[1].ops[k][1] # "-"
ContainsBlock(s, block) == \E k \in 0..(Len(s) - Len(block)) : Slice(s, k + 1, k + Len(block)) = block

\* C10: when a call of applyChanges on two insertions into the same file, both
\* diffed against the content the file has on disk, returns, the file has been
\* written exactly once and its content holds the lines of both insertions.
C10BothInsertionsWritten ==
    ( /\ pc = "returned" /\ caller = "initial" /\ edits = 0
      /\ Len(batch) = 2
      /\ batch[1].filePath = batch[2].filePath
      /\ IsInsertion(batch[1]) /\ IsInsertion(batch[2]) )
    => /\ WriteCount(batch[1].filePath) = 1
       /\ ContainsBlock(loadFileOrEmpty(fs, batch[1].filePath), AddedLines(batch[1]))
       /\ ContainsBlock(loadFileOrEmpty(fs, batch[1].filePath), AddedLines(batch[2]))

\* every context / removed line of the change's hunk matches the text at some position
ExactFit(current, c) ==
    c.hunks = <<>> \/ \E q \in 0..Len(current) : Mismatches(current, c.hunks[1].ops, q) = 0

\* C11: a step of applyChanges reports "Applied change." only for a patch whose
\* context lines match the file's current buffer exactly (fuzz factor zero): a
\* patch with a mismatching context line is never applied as a patch.
C11StrictMatching ==
    [][ (HandlesChange /\ PushedMessage = "Applied change.")
        => ExactFit(CurrentOf(batch[idx], fs, fileCache), batch[idx]) ]_vars

\* the text that handling the batch's first n changes one after the other, in
\* input order, leaves for path p, starting from the file as it was on disk
RECURSIVE BufferAfter(_, _)
BufferAfter(p, n) ==
    IF n = 0 THEN loadFileOrEmpty(diskAtStart, p)
    ELSE LET prev == BufferAfter(p, n - 1)
             c == batch[n]
             patched == applyPatch(prev, c.hunks, FuzzFactor)
         IN  IF c.filePath # p \/ ~c.hasPatch THEN prev
             ELSE IF patched.ok THEN patched.lines
             ELSE IF c.hasNewContent /\ c.newContent # <<>> /\ prev = loadFileOrEmpty(diskAtStart, p)
                  THEN c.newContent
                  ELSE prev

\* C12: while a call of applyChanges runs, the buffer of every file is what
\* handling the changes seen so far one at a time, in input order, each on the
\* buffer the previous one left, gives; and the content written for a file is
\* that sequential result for the whole batch.
C12InputOrder ==
    /\ pc \in {"patch", "flush", "returned"} =>
          \A p \in Paths : fileCache[p].cached => fileCache[p].current = BufferAfter(p, Len(results))
    /\ pc = "returned" =>
          \A p \in Paths : WriteCount(p) = 1 => fs[p] = File(BufferAfter(p, Len(batch)))

\* a returned batch in which a later patch was applied on top of an earlier
\* applied change to the same file
C12Witness ==
    /\ pc = "returned"
    /\ \E j \in 1..Len(results) : \E i \in 1..(j - 1) :
          /\ batch[i].filePath = batch[j].filePath
          /\ results[i].applied
          /\ results[j].message = "Applied change."
          /\ BufferAfter(batch[j].filePath, i) # BufferAfter(batch[j].filePath, i - 1)
          /\ BufferAfter(batch[j].filePath, j) # BufferAfter(batch[j].filePath, j - 1)
          /\ fs[batch[j].filePath] = File(BufferAfter(batch[j].filePath, Len(batch)))

\* C13: during and after a call of applyChanges whose dryRun is true, every
\* result produced is {changeId, applied: false, "Dry run: no changes applied."}
\* for the change at its position, one per change once the call has returned,
\* and no file has been loaded, no fileCache entry exists for the write loop
\* (which creates directories and writes) to run on, nothing has been written
\* and the files are as they were.
C13DryRunNoIO ==
    (dryRun /\ caller # "none") =>
        /\ \A i \in 1..Len(results) : results[i] = ApplyResult(batch[i].id, FALSE, "Dry run: no changes applied.")
        /\ pc \in {"returned", "done"} => Len(results) = Len(batch)
        /\ loaded = {}
        /\ fileCache = EmptyCache /\ cacheOrder = <<>>
        /\ pc # "flush"
        /\ written = <<>>
        /\ fs = diskAtStart

\* a dry run has returned for two changes with patches that would both apply
C13Witness ==
    /\ dryRun /\ pc = "returned"
    /\ Len(batch) = 2 /\ Len(results) = 2
    /\ \A i \in 1..2 : batch[i].hasPatch /\ applyPatch(loadFileOrEmpty(fs, batch[i].filePath), batch[i].hunks, FuzzFactor).ok

\* C14: the pass of the loop for a change whose patch is empty (dryRun false)
\* pushes {changeId, applied: false, "No patch available for this change."}
\* and nothing else: no file is loaded, fileCache and its key order are as
\* before, so the write loop gets no entry from this change, and no file
\* changes.
C14EmptyPatchSkipped ==
    [][ (HandlesChange /\ ~dryRun /\ ~batch[idx].hasPatch)
        => /\ results' = Append(results, ApplyResult(batch[idx].id, FALSE, "No patch available for this change."))
           /\ loaded' = loaded
           /\ fileCache' = fileCache
           /\ cacheOrder' = cacheOrder
           /\ written' = written
           /\ fs' = fs ]_vars

\* a call has returned in which the only change to a file had an empty patch:
\* the file was not loaded and not written, while another file was written
C14Witness ==
    /\ pc = "returned" /\ ~dryRun
    /\ \E i \in 1..Len(batch) :
          /\ ~batch[i].hasPatch
          /\ results[i].message = "No patch available for this change."
          /\ batch[i].filePath \notin loaded
          /\ WriteCount(batch[i].filePath) = 0
          /\ \E j \in 1..Len(batch) : results[j].applied

\* C15: while applyChanges runs its first loop it has pushed one result for
\* every change before the one at hand, and once it has returned results holds
\* one ApplyResult per input change, in input order, each with the id of its
\* change as changeId, whichever branch produced it.
C15OneResultPerChange ==
    pc \in {"patch", "flush", "returned"} =>
        /\ Len(results) <= Len(batch)
        /\ pc = "patch" => Len(results) = idx - 1
        /\ pc \in {"flush", "returned"} => Len(results) = Len(batch)
        /\ \A i \in 1..Len(results) : results[i].changeId = batch[i].id

\* a call for two changes has returned with two different outcomes
C15Witness ==
    /\ pc = "returned"
    /\ Len(batch) = 2 /\ Len(results) = 2
    /\ results[1].message # results[2].message
    /\ batch[1].id # batch[2].id

\* the text holds a <meta-data> tag of that android:name with that android:value
HasMetaData(s, name, value) ==
    \E i \in 1..(Len(s) - 2) :
       /\ Kind(s[i]) = "meta-data"
       /\ s[i + 1] = Ln("android:name", name, 2)
       /\ s[i + 2] = Ln("android:value", value, 2)

\* the two values runBaseRules asks ensureManifestFlagMeta for
FlagValues == {"0", "1"}

\* C16: whenever a manifest meta-data rule run on the project's manifest emits
\* no Change (its mutator returned the text as it was), the manifest already
\* holds the requested tag with the requested value: SMT_APP_ID with the app id
\* given, SMT_IS_AUTO_FETCHED_LOCATION with either value that can be asked for.
C16NoChangeMeansPresent ==
    LET m == loadFileOrEmpty(fs, ManifestPath)
    IN  /\ ensureManifestMetaData(fs, options.inputs.smartechAppId) = <<>>
              => HasMetaData(m, "SMT_APP_ID", options.inputs.smartechAppId)
        /\ \A v \in FlagValues :
              ensureManifestFlagMeta(fs, "android-manifest-metadata-smt_is_auto_fetched_location",
                                     "SMT_IS_AUTO_FETCHED_LOCATION", v) = <<>>
              => HasMetaData(m, "SMT_IS_AUTO_FETCHED_LOCATION", v)

\* ------------------------------------------------------- planning passes
\* a planning pass has answered and clientPlan holds its change list
HasPlanned == pc \in {"desktop", "verified"} \/ (pc = "idle" /\ clientPlan # <<>>)

\* the options that pass handed to planIntegration
PlannedOptions ==
    IF pc = "desktop" THEN normalizeOptions(fs, options)
    ELSE IF pc = "verified" THEN verifyOptions(fs, options)
    ELSE planOptions(fs, options)

\* what a rule module of the platform needs and does not find: the android
\* folder, a source root, the launcher activity, main.dart, a class path input
RequirementMissing(disk, opts, part) ==
    IF opts.appPlatform = "flutter"
    THEN \/ ~HasAndroid(disk)
         \/ sourceRoots(disk) = {}
         \/ part \in {"push", "px"} /\ ~pathExists(disk, opts.inputs.mainDartPath)
    ELSE IF opts.appPlatform = "android-native"
    THEN IF part = "push" THEN opts.inputs.firebaseMessagingServicePath = ""
         ELSE opts.inputs.applicationClassPath = "" \/ opts.inputs.mainActivityPath = ""
    ELSE \/ ~HasAndroid(disk)
         \/ part = "base" /\ ~pathExists(disk, JavaRoot)
         \/ part \in {"base", "px"} /\ Launcher(disk) = ""

\* C17: in the list a planning pass returned, every selected part whose rule
\* module misses a required file, anchor or input is represented by a Change
\* of that module whose patch is the empty string and whose manualSnippet is
\* populated.
C17MissingIsReported ==
    HasPlanned =>
        \A part \in AllParts :
            (Includes(PlannedOptions.parts, part) /\ RequirementMissing(fs, PlannedOptions, part))
            => \E i \in 1..Len(clientPlan) :
                  /\ clientPlan[i].module = part
                  /\ ~clientPlan[i].hasPatch
                  /\ clientPlan[i].manualSnippet

\* C18: within the list one planning pass returned, no two changes share an
\* id, whatever the platform and the selected parts.
C18IdsUnique ==
    HasPlanned =>
        \A i \in 1..Len(clientPlan) : \A j \in 1..Len(clientPlan) :
            clientPlan[i].id = clientPlan[j].id => i = j

\* the rule module of a platform for a part
RuleModule(disk, appPlatform, part, inputs) ==
    IF appPlatform = "flutter"
    THEN (IF part = "base" THEN runFlutterBaseRules(disk, inputs)
          ELSE IF part = "push" THEN runFlutterPushRules(disk, inputs)
          ELSE runFlutterPxRules(disk, inputs))
    ELSE IF appPlatform = "android-native"
    THEN (IF part = "base" THEN runNativeBaseRules(disk, inputs)
          ELSE IF part = "push" THEN runNativePushRules(disk, inputs)
          ELSE runNativePxRules(disk, inputs))
    ELSE (IF part = "base" THEN runBaseRules(disk, inputs)
          ELSE IF part = "push" THEN runPushRules(disk, inputs)
          ELSE runPxRules(disk, inputs))

\* base before push before px
PartRank(part) == IF part = "base" THEN 1 ELSE IF part = "push" THEN 2 ELSE 3

\* the changes of a list that one module contributed
OfModule(changes, part) ==
    LET FromPart(c) == c.module = part IN SelectSeq(changes, FromPart)

C20BaseAlwaysRuns ==
    HasPlanned =>
        OfModule(clientPlan, "base") =
            RuleModule(fs, platformOf(fs, options), "base", options.inputs)

BothReturned == caller = "initial" /\ pc = "returned" /\ other.pc = "returned"

\* the paths a call wrote: the keys of its fileCache
WrittenByFirst == {cacheOrder[k] : k \in 1..Len(cacheOrder)}
WrittenBySecond == {other.order[k] : k \in 1..Len(other.order)}

\* C22: nothing coordinates two apply calls on one project. A file both calls
\* wrote holds, once both have returned, the content of one call's fileCache
\* as that call computed it from its own read: the later write replaces the
\* earlier one whole and the two are never combined.
C22LastWriteWins ==
    BothReturned =>
        \A p \in WrittenByFirst \cap WrittenBySecond :
            fs[p].lines \in {fileCache[p].current, other.cache[p].current}

\* the lost update: both calls reported their change applied to the same file,
\* the file holds the second call's content, and a new plan proposes the first
\* call's change again
C22Witness ==
    /\ BothReturned
    /\ \E i \in 1..Len(batch) :
          /\ results[i].applied
          /\ other.results[1].applied
          /\ batch[i].id # other.batch[1].id
          /\ batch[i].filePath = other.batch[1].filePath
          /\ fs[batch[i].filePath].lines = other.cache[batch[i].filePath].current
          /\ fs[batch[i].filePath].lines # fileCache[batch[i].filePath].current
          /\ batch[i].id \in Ids(planIntegration(fs, verifyOptions(fs, options)))

\* C23: after the initial apply the handler makes at most one retry call of
\* applyChanges, and makes it only for a re-plan that still holds selected
\* changes.
C23AtMostOneRetry ==
    /\ subBatches <= 1
    /\ caller = "retry" => batch # <<>>

\* C24: when package.json exists and cannot be parsed, the list a planning
\* pass of a React Native project returned holds no change for package.json,
\* and holds every change the other steps of the selected rule modules emit:
\* it is the list the same project yields without a package.json.
C24UnparsablePackageJson ==
    (/\ HasPlanned
     /\ PlannedOptions.appPlatform = "react-native"
     /\ pathExists(fs, PackageJsonPath)
     /\ ~JsonParses(fs[PackageJsonPath].lines))
    => /\ \A i \in 1..Len(clientPlan) : clientPlan[i].filePath # PackageJsonPath
       /\ clientPlan = planIntegration([fs EXCEPT ![PackageJsonPath] = NoFile], PlannedOptions)

\* a plan of all three parts for a project with a broken package.json, holding
\* the gradle.properties changes of all three modules and manifest changes
C24Witness ==
    /\ HasPlanned
    /\ PlannedOptions.appPlatform = "react-native"
    /\ pathExists(fs, PackageJsonPath)
    /\ ~JsonParses(fs[PackageJsonPath].lines)
    /\ {"android-gradle-properties-smartech", "android-gradle-properties-smartech-px",
        "android-gradle-properties-smartech-push", "android-manifest-metadata-appid",
        "rn-index-push-manual"} \subseteq Ids(clientPlan)
    /\ \E i \in 1..Len(clientPlan) : clientPlan[i].module = "px" /\ clientPlan[i].filePath = ManifestPath

\* C25: for a gradle.properties that holds SMARTECH_BASE_SDK_VERSION=3.7.0 and
\* a requested version 3.7.6, the base module's plan holds the change
\* android-gradle-properties-smartech, its kind is "update", and its new
\* content is the file with the value of that one line replaced and every
\* other line as it was.
C25GradleValueReplaced ==
    LET original == loadFileOrEmpty(fs, GradlePath)
        key == "SMARTECH_BASE_SDK_VERSION"
    IN  (/\ HasPlanned
         /\ PlannedOptions.appPlatform = "react-native"
         /\ Includes(PlannedOptions.parts, "base")
         /\ pathExists(fs, JavaRoot)
         /\ \E k \in 1..Len(original) : original[k] = Ln(key, "3.7.0", 0)
         /\ PlannedOptions.inputs.baseSdkVersion \in {"", "3.7.6"})
        => \E i \in 1..Len(clientPlan) :
              /\ clientPlan[i].id = "android-gradle-properties-smartech"
              /\ clientPlan[i].kind = "update"
              /\ Len(clientPlan[i].newContent) = Len(original)
              /\ \A k \in 1..Len(original) :
                    clientPlan[i].newContent[k] =
                        IF Kind(original[k]) = key THEN Ln(key, "3.7.6", 0) ELSE original[k]

\* the claim's Application class: onCreate calls super.onCreate and
\* initializeSdk once, and neither setDebugLevel nor trackAppInstallUpdateBySmartech
InitOnlyOnCreate(source) ==
    /\ CountKind(source, "onCreate") = 1
    /\ CountKind(source, "super.onCreate") = 1
    /\ CountKind(source, "initializeSdk") = 1
    /\ CountKind(source, "setDebugLevel") = 0
    /\ CountKind(source, "trackAppInstallUpdateBySmartech") = 0

\* new content that is the original with a block of SDK lines right after the
\* super.onCreate line: the block holds setDebugLevel and the install tracking
\* call, no initializeSdk, and the original's statements follow it unchanged
InjectedAfterSuperOnCreate(original, content) ==
    LET k == FirstOfKind(content, "super.onCreate")
        j == FirstOfKind(original, "super.onCreate")
    IN  /\ k # 0
        /\ CountKind(content, "initializeSdk") = 1
        /\ CountKind(content, "setDebugLevel") = 1
        /\ CountKind(content, "trackAppInstallUpdateBySmartech") = 1
        /\ \E m \in 2..(Len(content) - k) :
              /\ \A i \in (k + 1)..(k + m) :
                    Kind(content[i]) \in {"comment", "setDebugLevel", "trackAppInstallUpdateBySmartech",
                                          "pluginGet", "pluginInit"}
              /\ \E i \in (k + 1)..(k + m) : Kind(content[i]) = "setDebugLevel"
              /\ \E i \in (k + 1)..(k + m) : Kind(content[i]) = "trackAppInstallUpdateBySmartech"
              /\ Slice(content, k + m + 1, Len(content)) = Slice(original, j + 1, Len(original))

\* C26: for an Application class whose onCreate already calls initializeSdk
\* and lacks setDebugLevel and trackAppInstallUpdateBySmartech, the plan holds
\* the change android-inject-oncreate, whose new content has the injected
\* lines right after the super.onCreate line and one initializeSdk line; the
\* native Android insertion of the missing lines does the same.
C26InjectedAfterSuper ==
    LET original == loadFileOrEmpty(fs, ApplicationPath)
    IN  (/\ HasPlanned
         /\ PlannedOptions.appPlatform = "react-native"
         /\ Includes(PlannedOptions.parts, "base")
         /\ pathExists(fs, JavaRoot)
         /\ InitOnlyOnCreate(original))
        => /\ \E i \in 1..Len(clientPlan) :
                 /\ clientPlan[i].id = "android-inject-oncreate"
                 /\ clientPlan[i].filePath = ApplicationPath
                 /\ InjectedAfterSuperOnCreate(original, clientPlan[i].newContent)
           /\ InjectedAfterSuperOnCreate(original,
                  insertAfterSuperOnCreate(original, nativeGetMissingJavaInitLines(original)))

C26Witness ==
    /\ HasPlanned
    /\ PlannedOptions.appPlatform = "react-native"
    /\ Includes(PlannedOptions.parts, "base")
    /\ InitOnlyOnCreate(loadFileOrEmpty(fs, ApplicationPath))
    /\ \E i \in 1..Len(clientPlan) :
          /\ clientPlan[i].id = "android-inject-oncreate"
          /\ clientPlan[i].hasPatch
          /\ Includes(clientPlan[i].newContent, SMARTECH_INIT_LINES[3])
          /\ Includes(clientPlan[i].newContent, SMARTECH_INIT_LINES[5])
          /\ ~Includes(fs[ApplicationPath].lines, SMARTECH_INIT_LINES[3])

\* the ids the caller selected: selectedChangeIds, or the ids of the changes
\* it sent when the request carries none
OriginallySelected ==
    IF request.hasSelectedIds THEN request.selectedIds ELSE Ids(request.changes)

\* C27: every change a retry sub-batch applies has an id of the originally
\* selected set, also when the request carries no selectedChangeIds.
C27RetryAppliesSelectedOnly ==
    (caller = "retry" /\ pc \in {"patch", "flush", "returned"})
        => \A i \in 1..Len(results) : results[i].applied => batch[i].id \in OriginallySelected

\* how many lines of a file are the given line
Copies(s, line) == Cardinality({k \in 1..Len(s) : s[k] = line})

\* C28: when the apply handler has answered (initial apply and verify-retry
\* loop done) for a plan made of the files as they are, the manifest holds at most one Hansel deeplink intent filter of
\* the requested scheme and at most one meta-data tag of each name the
\* selected changes ask for.
C28InsertedAtMostOnce ==
    (pc = "done" /\ caller \in {"initial", "retry"} /\ edits = 0)
        => LET m == loadFileOrEmpty(fs, ManifestPath)
               given == verifyOptions(fs, options).inputs
           IN  /\ Copies(m, Ln("data", given.pxScheme, 3)) <= 1
               /\ \A name \in {"SMT_APP_ID", "HANSEL_APP_ID", "HANSEL_APP_KEY", "SMT_IS_AUTO_FETCHED_LOCATION"} :
                     Copies(m, Ln("android:name", name, 2)) <= 1

\* a change of the call in progress was reported applied:true for the path
AppliedToPath(p) == \E i \in 1..Len(results) : batch[i].filePath = p /\ results[i].applied

\* C29: during and after a call of applyChanges, a file none of whose changes
\* was reported applied:true has not been written and is as it was when the
\* call began (absent if it was absent).
C29WritesOnlyApplied ==
    caller # "none"
        => \A p \in AllPaths :
              ~AppliedToPath(p) => /\ fs[p] = diskAtStart[p]
                                   /\ \A k \in 1..Len(written) : written[k] # p

C29Witness ==
    /\ pc = "returned"
    /\ caller = "initial"
    /\ \E i, j \in 1..Len(results) :
          /\ ~results[i].applied
          /\ ~AppliedToPath(batch[i].filePath)
          /\ ~pathExists(diskAtStart, batch[i].filePath)
          /\ ~pathExists(fs, batch[i].filePath)
          /\ results[j].applied
          /\ fs[batch[j].filePath] # diskAtStart[batch[j].filePath]

\* an advisory change: one that carries no edit (no patch, or a patch without hunks)
IsAdvisory(c) == ~c.hasPatch \/ c.hunks = <<>>

\* C30: an advisory change is never reported applied:true, and a call of
\* applyChanges on advisory changes alone leaves every file as it was, the
\* missing main.dart included.
C30AdvisoryNeverApplied ==
    caller # "none"
        => /\ \A i \in 1..Len(results) : IsAdvisory(batch[i]) => ~results[i].applied
           /\ (\A i \in 1..Len(batch) : IsAdvisory(batch[i])) => fs = diskAtStart

=============================================================================
